---- MODULE Spec2Model ----
(***************************************************************************)
(* Model of the control plane's desired-state store                        *)
(* (control-plane/internal/store/store.go) and of the HTTP handlers of     *)
(* control-plane/internal/api/server.go that drive it.                     *)
(*                                                                         *)
(* Go values are modelled as follows.                                      *)
(*   string      a TLA+ string, "" is the empty string; a compose path is  *)
(*               a sequence of characters so that strings.TrimSpace acts   *)
(*   time.Time   a natural number, 0 is the zero time (time.Time{})        *)
(*   []T         a record [isNil, elems]: Go distinguishes a nil slice     *)
(*               from an empty one, and so does encoding/json              *)
(*   map[K]*V    a function from the set of present keys to records        *)
(***************************************************************************)
EXTENDS Naturals, Integers, Sequences, FiniteSets, TLC

\* ------------------------------------------------------------------------
\* Bounds
\* ------------------------------------------------------------------------
MaxJobs == 2
NumProcs == 2
MaxTime == 2
MaxOps == 3
MaxFailures == 1

\* ------------------------------------------------------------------------
\* Identifier pools
\* ------------------------------------------------------------------------
JobIDPool == <<"j1", "j2", "j3", "j4", "j5">>
JobIDs == {JobIDPool[i] : i \in 1..MaxJobs}
Procs == 1..NumProcs
WorkerPool == <<"w1", "w2", "w3", "w4", "w5">>
WorkerOf(p) == WorkerPool[p]
None == "none"

ZeroTime == 0
IsZero(t) == t = ZeroTime
After(a, b) == a > b
Before(a, b) == a < b

Statuses == {"pending", "running", "succeeded", "failed"}
IsTerminal(status) == status = "succeeded" \/ status = "failed"

\* ------------------------------------------------------------------------
\* Slices and strings
\* ------------------------------------------------------------------------
NilSlice == [isNil |-> TRUE, elems |-> <<>>]
MkSlice(elems) == [isNil |-> FALSE, elems |-> elems]
\* append([]T(nil), xs...): a fresh slice, nil when xs has no element
AppendToNil(xs) == IF Len(xs.elems) = 0 THEN NilSlice ELSE MkSlice(xs.elems)

RECURSIVE TrimLeft(_)
TrimLeft(s) == IF s # <<>> /\ Head(s) = " " THEN TrimLeft(Tail(s)) ELSE s
RECURSIVE TrimRight(_)
TrimRight(s) ==
  IF s # <<>> /\ s[Len(s)] = " " THEN TrimRight(SubSeq(s, 1, Len(s) - 1)) ELSE s
TrimSpace(s) == TrimRight(TrimLeft(s))

\* ------------------------------------------------------------------------
\* models.BuildJob
\* ------------------------------------------------------------------------
BuildJob(id, repository, ref, commit, installation, status, reason, workerID, startedAt, completedAt, artifacts, serviceID, environment, composePath, createdAt, updatedAt) ==
  [ID |-> id, Repository |-> repository, Ref |-> ref, Commit |-> commit,
   Installation |-> installation, Status |-> status, Reason |-> reason,
   WorkerID |-> workerID, StartedAt |-> startedAt,
   CompletedAt |-> completedAt, Artifacts |-> artifacts,
   ServiceID |-> serviceID, Environment |-> environment,
   ComposePath |-> composePath, CreatedAt |-> createdAt,
   UpdatedAt |-> updatedAt]

NoJob == BuildJob("", "", "", "", "", "", "", "", 0, 0, NilSlice, "", "",
                  <<>>, 0, 0)

\* cloneBuildJob, by value: the struct is copied and a non-nil Artifacts
\* slice is rebuilt with append([]string(nil), ...)
cloneBuildJob(job) ==
  IF job.Artifacts.isNil THEN job
  ELSE [job EXCEPT !.Artifacts = AppendToNil(job.Artifacts)]

\* ------------------------------------------------------------------------
\* models.Project, models.Service, models.Domain, models.Deployment,
\* models.Repository, models.Installation
\* ------------------------------------------------------------------------
Project(id, name, slug, createdAt) ==
  [ID |-> id, Name |-> name, Slug |-> slug, CreatedAt |-> createdAt]

Service(id, projectID, name, image, internalPort, compose, createdAt, updatedAt, domains, deployments) ==
  [ID |-> id, ProjectID |-> projectID, Name |-> name, Image |-> image,
   InternalPort |-> internalPort, Compose |-> compose,
   CreatedAt |-> createdAt, UpdatedAt |-> updatedAt, Domains |-> domains,
   Deployments |-> deployments]

Domain(id, serviceID, environment, hostname, createdAt) ==
  [ID |-> id, ServiceID |-> serviceID, Environment |-> environment,
   Hostname |-> hostname, CreatedAt |-> createdAt]

Deployment(id, serviceID, environment, image, createdAt) ==
  [ID |-> id, ServiceID |-> serviceID, Environment |-> environment,
   Image |-> image, CreatedAt |-> createdAt]

\* ServiceID and Environment are the fields UpsertRepository reads and
\* writes (store.go 251-256)
Repository(id, owner, name, defaultBranch, composePath, installation, serviceID, environment, createdAt, updatedAt) ==
  [ID |-> id, Owner |-> owner, Name |-> name,
   DefaultBranch |-> defaultBranch, ComposePath |-> composePath,
   Installation |-> installation, ServiceID |-> serviceID,
   Environment |-> environment, CreatedAt |-> createdAt,
   UpdatedAt |-> updatedAt]

Installation(id, account, externalID, webhookSecret, createdAt, updatedAt) ==
  [ID |-> id, Account |-> account, ExternalID |-> externalID,
   WebhookSecret |-> webhookSecret, CreatedAt |-> createdAt,
   UpdatedAt |-> updatedAt]

cloneProject(p) == p

\* cloneService: the struct is copied, non-nil Domains and Deployments are
\* rebuilt with append([]T(nil), ...)
cloneService(svc) ==
  [svc EXCEPT
     !.Domains = IF svc.Domains.isNil THEN @ ELSE AppendToNil(@),
     !.Deployments = IF svc.Deployments.isNil THEN @ ELSE AppendToNil(@)]

cloneRepository(repo) == repo

cloneInstallation(inst) == inst

\* ------------------------------------------------------------------------
\* State
\* ------------------------------------------------------------------------
VARIABLES
  data,   \* Store.data: the five entity maps
  file,   \* content of the snapshot file at Store.path
  mu,     \* Store.mu: [w |-> the callers holding it for writing, r |-> readers]
  now,    \* the wall clock read by time.Now()
  pc,     \* position of each caller in the operation it runs
  loc,    \* local variables of each caller's running operation
  ret,    \* what each caller's last operation returned
  hist,   \* history: what the last operation was and what it started from
  heap,   \* the Go heap seen by reference: structs, backing arrays, pointers
  agent,  \* the host agent: its loop, its tickers, the host it converges
  worker  \* the build worker: its polling loop, the job it builds, what it sent

vars == <<data, file, mu, now, pc, loc, ret, hist, heap, agent, worker>>

EmptyState ==
  [Projects |-> <<>>, Services |-> <<>>, Repos |-> <<>>,
   Installations |-> <<>>, BuildJobs |-> <<>>]

MuFree == [w |-> {}, r |-> {}]

NoLoc == [sel |-> None, worker |-> "", job |-> NoJob]
NoRet == [op |-> None, err |-> None, job |-> NoJob]
NoArg == [ID |-> ""]
NoHist == [op |-> None, err |-> None, arg |-> NoArg, ops |-> 0, fails |-> 0,
           m0 |-> 0, prev0 |-> <<>>, claims |-> <<>>, accepted |-> <<>>,
           crash |-> [at |-> None, pre |-> EmptyState, post |-> EmptyState]]

\* heap addresses are indexes, 0 is the nil pointer and the nil slice:
\*   arrays    the backing arrays of the slices
\*   jobs      the BuildJob structs, Artifacts holding an address in arrays
\*   svcs      the Service structs, Domains and Deployments likewise
\*   BuildJobs, Services   Store.data's maps, from ID to a struct's address
\*   held      the structs the caller has a pointer to, and where from
NoHeap ==
  [arrays |-> <<>>, jobs |-> <<>>, svcs |-> <<>>, BuildJobs |-> <<>>,
   Services |-> <<>>, held |-> {}, n |-> 0,
   last |-> [op |-> None, origin |-> None]]

\* the agent is another program: it does not run next to the callers of the
\* store
NoAgent == [pc |-> "off"]
NoWorker == [pc |-> "off"]

Nil == "nil"
ErrNotFound == "store: not found"
ErrPersist == "persist: write failed"

\* ------------------------------------------------------------------------
\* encoding/json of the snapshot: struct fields are written under their json
\* tags, a time as its RFC 3339 text, a nil slice as null
\* ------------------------------------------------------------------------
EncodeTime(t) == [rfc3339 |-> t]
DecodeTime(j) == j.rfc3339

EncodeStringsNoNull(xs) == [json |-> "array", items |-> xs.elems]

EncodeStrings(xs) ==
  IF xs.isNil THEN [json |-> "null"] ELSE [json |-> "array", items |-> xs.elems]
DecodeStrings(j) ==
  IF j.json = "null" THEN NilSlice ELSE MkSlice(j.items)

EncodeBuildJob(job) ==
  [id |-> job.ID, repository |-> job.Repository, ref |-> job.Ref,
   commit |-> job.Commit, installation |-> job.Installation,
   status |-> job.Status, reason |-> job.Reason, worker_id |-> job.WorkerID,
   started_at |-> EncodeTime(job.StartedAt),
   completed_at |-> EncodeTime(job.CompletedAt),
   artifacts |-> EncodeStrings(job.Artifacts),
   service_id |-> job.ServiceID, environment |-> job.Environment,
   compose_path |-> job.ComposePath,
   created_at |-> EncodeTime(job.CreatedAt),
   updated_at |-> EncodeTime(job.UpdatedAt)]

DecodeBuildJob(j) ==
  BuildJob(j.id, j.repository, j.ref, j.commit, j.installation, j.status,
           j.reason, j.worker_id, DecodeTime(j.started_at),
           DecodeTime(j.completed_at), DecodeStrings(j.artifacts),
           j.service_id, j.environment, j.compose_path,
           DecodeTime(j.created_at), DecodeTime(j.updated_at))

EncodeProject(p) ==
  [id |-> p.ID, name |-> p.Name, slug |-> p.Slug,
   created_at |-> EncodeTime(p.CreatedAt)]
DecodeProject(j) == Project(j.id, j.name, j.slug, DecodeTime(j.created_at))

EncodeDomain(d) ==
  [id |-> d.ID, service_id |-> d.ServiceID, environment |-> d.Environment,
   hostname |-> d.Hostname, created_at |-> EncodeTime(d.CreatedAt)]
DecodeDomain(j) ==
  Domain(j.id, j.service_id, j.environment, j.hostname,
         DecodeTime(j.created_at))

EncodeDeployment(d) ==
  [id |-> d.ID, service_id |-> d.ServiceID, environment |-> d.Environment,
   image |-> d.Image, created_at |-> EncodeTime(d.CreatedAt)]
DecodeDeployment(j) ==
  Deployment(j.id, j.service_id, j.environment, j.image,
             DecodeTime(j.created_at))

EncodeDomains(xs) ==
  IF xs.isNil THEN [json |-> "null"]
  ELSE [json |-> "array",
        items |-> [i \in DOMAIN xs.elems |-> EncodeDomain(xs.elems[i])]]
DecodeDomains(j) ==
  IF j.json = "null" THEN NilSlice
  ELSE MkSlice([i \in DOMAIN j.items |-> DecodeDomain(j.items[i])])

EncodeDeployments(xs) ==
  IF xs.isNil THEN [json |-> "null"]
  ELSE [json |-> "array",
        items |-> [i \in DOMAIN xs.elems |-> EncodeDeployment(xs.elems[i])]]
DecodeDeployments(j) ==
  IF j.json = "null" THEN NilSlice
  ELSE MkSlice([i \in DOMAIN j.items |-> DecodeDeployment(j.items[i])])

EncodeService(svc) ==
  [id |-> svc.ID, project_id |-> svc.ProjectID, name |-> svc.Name,
   image |-> svc.Image, internal_port |-> svc.InternalPort,
   compose |-> svc.Compose, created_at |-> EncodeTime(svc.CreatedAt),
   updated_at |-> EncodeTime(svc.UpdatedAt),
   domains |-> EncodeDomains(svc.Domains),
   deployments |-> EncodeDeployments(svc.Deployments)]
DecodeService(j) ==
  Service(j.id, j.project_id, j.name, j.image, j.internal_port, j.compose,
          DecodeTime(j.created_at), DecodeTime(j.updated_at),
          DecodeDomains(j.domains), DecodeDeployments(j.deployments))

EncodeRepository(r) ==
  [id |-> r.ID, owner |-> r.Owner, name |-> r.Name,
   default_branch |-> r.DefaultBranch, compose_path |-> r.ComposePath,
   installation_id |-> r.Installation, service_id |-> r.ServiceID,
   environment |-> r.Environment, created_at |-> EncodeTime(r.CreatedAt),
   updated_at |-> EncodeTime(r.UpdatedAt)]
DecodeRepository(j) ==
  Repository(j.id, j.owner, j.name, j.default_branch, j.compose_path,
             j.installation_id, j.service_id, j.environment,
             DecodeTime(j.created_at), DecodeTime(j.updated_at))

EncodeInstallation(i) ==
  [id |-> i.ID, account |-> i.Account, external_id |-> i.ExternalID,
   webhook_secret |-> i.WebhookSecret,
   created_at |-> EncodeTime(i.CreatedAt),
   updated_at |-> EncodeTime(i.UpdatedAt)]
DecodeInstallation(j) ==
  Installation(j.id, j.account, j.external_id, j.webhook_secret,
               DecodeTime(j.created_at), DecodeTime(j.updated_at))

\* json.MarshalIndent(s.data, "", "  "): each map becomes an object keyed by
\* entity ID
MarshalState(st) ==
  [projects |-> [k \in DOMAIN st.Projects |-> EncodeProject(st.Projects[k])],
   services |-> [k \in DOMAIN st.Services |-> EncodeService(st.Services[k])],
   repos |-> [k \in DOMAIN st.Repos |-> EncodeRepository(st.Repos[k])],
   installations |->
     [k \in DOMAIN st.Installations |-> EncodeInstallation(st.Installations[k])],
   build_jobs |->
     [k \in DOMAIN st.BuildJobs |-> EncodeBuildJob(st.BuildJobs[k])]]

\* json.Unmarshal(bytes, &state), lines 72-91 of load
UnmarshalState(doc) ==
  [Projects |-> [k \in DOMAIN doc.projects |-> DecodeProject(doc.projects[k])],
   Services |-> [k \in DOMAIN doc.services |-> DecodeService(doc.services[k])],
   Repos |-> [k \in DOMAIN doc.repos |-> DecodeRepository(doc.repos[k])],
   Installations |->
     [k \in DOMAIN doc.installations |-> DecodeInstallation(doc.installations[k])],
   BuildJobs |->
     [k \in DOMAIN doc.build_jobs |-> DecodeBuildJob(doc.build_jobs[k])]]

JsonFile(st) == [kind |-> "json", doc |-> MarshalState(st)]
EmptyFile == [kind |-> "empty"]
TruncatedFile == [kind |-> "truncated"]

\* persistLocked: os.WriteFile either writes the whole snapshot, or fails and
\* leaves the file as it was, emptied (O_TRUNC) or cut short
persistLocked(st, old) ==
  {[ok |-> TRUE, file |-> JsonFile(st)]}
    \cup {[ok |-> FALSE, file |-> f] : f \in {old, EmptyFile, TruncatedFile}}

\* the outcomes of one persistLocked call, at most MaxFailures of the calls
\* of a run failing
Writes(st) == {w \in persistLocked(st, file) : w.ok \/ hist.fails < MaxFailures}

\* ------------------------------------------------------------------------
\* Store.mu
\* ------------------------------------------------------------------------
LockNoExclusion(p) == mu' = [mu EXCEPT !.w = @ \cup {p}]

\* s.mu.Lock(): waits until no writer and no reader holds the mutex
Lock(p) == mu.w = {} /\ mu.r = {} /\ mu' = [mu EXCEPT !.w = @ \cup {p}]
\* the deferred s.mu.Unlock()
Unlock(p) == mu' = [mu EXCEPT !.w = @ \ {p}]
RLockNoExclusion(p) == mu' = [mu EXCEPT !.r = @ \cup {p}]

\* s.mu.RLock(): waits until no writer holds the mutex
RLock(p) == mu.w = {} /\ mu' = [mu EXCEPT !.r = @ \cup {p}]
\* the deferred s.mu.RUnlock()
RUnlock(p) == mu' = [mu EXCEPT !.r = @ \ {p}]
\* an operation whose whole body runs between Lock and Unlock in one step
Locked == mu.w = {} /\ mu.r = {} /\ UNCHANGED mu
\* an operation whose whole body runs between RLock and RUnlock in one step
RLocked == mu.w = {} /\ UNCHANGED mu

\* ------------------------------------------------------------------------
\* Build jobs
\* ------------------------------------------------------------------------
CreateBuildJobKeepsLifecycle(job, t) ==
  LET j1 == IF job.Status = "" THEN [job EXCEPT !.Status = "pending"] ELSE job
  IN [j1 EXCEPT !.CreatedAt = t, !.UpdatedAt = t,
                !.Artifacts = AppendToNil(j1.Artifacts),
                !.ComposePath = TrimSpace(j1.ComposePath)]

\* what CreateBuildJob leaves in *job (and stores a clone of)
CreateBuildJobValue(job, t) ==
  LET j1 == IF job.Status = "" THEN [job EXCEPT !.Status = "pending"] ELSE job
      j2 == IF j1.ServiceID # "" /\ j1.Environment = ""
            THEN [j1 EXCEPT !.Environment = "production"] ELSE j1
  IN [j2 EXCEPT !.CreatedAt = t, !.UpdatedAt = t, !.StartedAt = ZeroTime,
                !.CompletedAt = ZeroTime, !.WorkerID = "",
                !.Artifacts = AppendToNil(j2.Artifacts),
                !.ComposePath = TrimSpace(j2.ComposePath)]

UpdateBuildJobNoClear(job, t) ==
  LET j1 == [job EXCEPT !.UpdatedAt = t]
      j2 == IF IsTerminal(j1.Status) /\ IsZero(j1.CompletedAt)
            THEN [j1 EXCEPT !.CompletedAt = j1.UpdatedAt] ELSE j1
  IN [j2 EXCEPT !.Artifacts = AppendToNil(j2.Artifacts),
                !.ComposePath = TrimSpace(j2.ComposePath)]

\* what UpdateBuildJob leaves in *job (and stores a clone of)
UpdateBuildJobValue(job, t) ==
  LET j1 == [job EXCEPT !.UpdatedAt = t]
      j2 == IF IsTerminal(j1.Status)
            THEN IF IsZero(j1.CompletedAt)
                 THEN [j1 EXCEPT !.CompletedAt = j1.UpdatedAt] ELSE j1
            ELSE IF ~IsZero(j1.CompletedAt)
                 THEN [j1 EXCEPT !.CompletedAt = ZeroTime] ELSE j1
  IN [j2 EXCEPT !.Artifacts = AppendToNil(j2.Artifacts),
                !.ComposePath = TrimSpace(j2.ComposePath)]

\* the transition ClaimNextPendingBuildJob applies to the selected job
ClaimKeepsWorker(job, workerID, t) ==
  [job EXCEPT !.Status = "running", !.WorkerID = IF @ = "" THEN workerID ELSE @,
              !.StartedAt = IF IsZero(@) THEN t ELSE @, !.UpdatedAt = t]
ClaimTransition(job, workerID, t) ==
  [job EXCEPT !.Status = "running", !.WorkerID = workerID, !.StartedAt = t,
              !.UpdatedAt = t]

\* the orders in which a range over a Go map may visit its keys
Orders(S) ==
  {o \in [1..Cardinality(S) -> S] : \A i, j \in DOMAIN o : i # j => o[i] # o[j]}

RECURSIVE ScanAnyStatus(_, _, _)
ScanAnyStatus(order, jobs, selectedID) ==
  IF order = <<>> THEN selectedID
  ELSE LET id == Head(order)
       IN IF selectedID = None
             \/ Before(jobs[id].CreatedAt, jobs[selectedID].CreatedAt)
          THEN ScanAnyStatus(Tail(order), jobs, id)
          ELSE ScanAnyStatus(Tail(order), jobs, selectedID)

\* the selection loop of ClaimNextPendingBuildJob over one visiting order
RECURSIVE ScanPending(_, _, _)
ScanPending(order, jobs, selectedID) ==
  IF order = <<>> THEN selectedID
  ELSE LET id == Head(order)
           job == jobs[id]
       IN IF job.Status # "pending"
          THEN ScanPending(Tail(order), jobs, selectedID)
          ELSE IF selectedID = None
                  \/ Before(job.CreatedAt, jobs[selectedID].CreatedAt)
               THEN ScanPending(Tail(order), jobs, id)
               ELSE ScanPending(Tail(order), jobs, selectedID)

PendingIDs(jobs) == {id \in DOMAIN jobs : jobs[id].Status = "pending"}

\* ClaimNextPendingBuildJob, line 416: the caller takes the write lock
ClaimLock(p) ==
  /\ pc[p] = "idle"
  /\ Lock(p)
  /\ pc' = [pc EXCEPT ![p] = "claim_locked"]
  /\ loc' = [loc EXCEPT ![p] = [NoLoc EXCEPT !.worker = WorkerOf(p)]]
  /\ ret' = [ret EXCEPT ![p] = NoRet]
  /\ UNCHANGED <<data, file, now, hist, heap, agent, worker>>

\* lines 419-435: the scan for the oldest pending job; nothing pending
\* returns ErrNotFound
ClaimScan(p) ==
  /\ pc[p] = "claim_locked"
  /\ \E order \in Orders(DOMAIN data.BuildJobs) :
       LET sel == ScanPending(order, data.BuildJobs, None)
       IN IF sel = None
          THEN /\ pc' = [pc EXCEPT ![p] = "idle"]
               /\ loc' = [loc EXCEPT ![p] = NoLoc]
               /\ ret' = [ret EXCEPT ![p] =
                            [op |-> "claim", err |-> ErrNotFound, job |-> NoJob]]
               /\ hist' = [hist EXCEPT !.op = "claim", !.err = ErrNotFound,
                                       !.arg = NoArg, !.ops = @ + 1]
               /\ Unlock(p)
          ELSE /\ pc' = [pc EXCEPT ![p] = "claim_selected"]
               /\ loc' = [loc EXCEPT ![p].sel = sel]
               /\ UNCHANGED <<ret, hist, mu>>
  /\ UNCHANGED <<data, file, now, heap, agent, worker>>

\* lines 437-449: the selected job becomes running, the snapshot is written,
\* a copy is returned
ClaimCommit(p) ==
  /\ pc[p] = "claim_selected"
  /\ LET id == loc[p].sel
         job == ClaimTransition(data.BuildJobs[id], loc[p].worker, now)
         next == [data EXCEPT !.BuildJobs[id] = cloneBuildJob(job)]
     IN \E w \in Writes(next) :
          /\ data' = next
          /\ file' = w.file
          /\ ret' = [ret EXCEPT ![p] =
                       IF w.ok
                       THEN [op |-> "claim", err |-> Nil, job |-> cloneBuildJob(job)]
                       ELSE [op |-> "claim", err |-> ErrPersist, job |-> NoJob]]
          /\ hist' = [hist EXCEPT
                        !.op = "claim",
                        !.err = IF w.ok THEN Nil ELSE ErrPersist,
                        !.arg = [ID |-> id],
                        !.ops = @ + 1,
                        !.fails = IF w.ok THEN @ ELSE @ + 1,
                        !.claims = IF w.ok
                                   THEN Append(@, [p |-> p, id |-> job.ID,
                                                   before |-> data.BuildJobs])
                                   ELSE @]
  /\ pc' = [pc EXCEPT ![p] = "idle"]
  /\ loc' = [loc EXCEPT ![p] = NoLoc]
  /\ Unlock(p)
  /\ UNCHANGED <<now, heap, agent, worker>>

\* time passes
Tick ==
  /\ now < MaxTime
  /\ now' = now + 1
  /\ UNCHANGED <<data, file, mu, pc, loc, ret, hist, heap, agent, worker>>

\* ------------------------------------------------------------------------
\* Store operations whose whole body runs under the write lock
\* ------------------------------------------------------------------------
ErrProjectExists == "store: project already exists"
ErrServiceExists == "store: service already exists"

\* the tail "s.data.X[id] = clone(x); return s.persistLocked()" of a mutating
\* operation called by caller c: the map is assigned, then the snapshot is
\* written and the write's error returned
Commit(c, op, arg, next, val) ==
  /\ Locked
  /\ \E w \in Writes(next) :
       /\ data' = next
       /\ file' = w.file
       /\ ret' = [ret EXCEPT ![c] = [op |-> op,
                                     err |-> IF w.ok THEN Nil ELSE ErrPersist,
                                     job |-> val]]
       /\ hist' = [hist EXCEPT !.op = op,
                               !.err = IF w.ok THEN Nil ELSE ErrPersist,
                               !.arg = arg, !.ops = @ + 1,
                               !.fails = IF w.ok THEN @ ELSE @ + 1]
  /\ UNCHANGED <<now, pc, loc, heap, agent, worker>>

\* an early "return err" of an operation called by caller c
Reject(c, op, arg, err) ==
  /\ Locked
  /\ ret' = [ret EXCEPT ![c] = [op |-> op, err |-> err, job |-> NoJob]]
  /\ hist' = [hist EXCEPT !.op = op, !.err = err, !.arg = arg, !.ops = @ + 1]
  /\ UNCHANGED <<data, file, now, pc, loc, heap, agent, worker>>

CreateProject(c, p) ==
  IF p.ID \in DOMAIN data.Projects
  THEN Reject(c, "CreateProject", p, ErrProjectExists)
  ELSE LET stored == cloneProject([p EXCEPT !.CreatedAt = now])
       IN Commit(c, "CreateProject", p,
                 [data EXCEPT !.Projects = (p.ID :> stored) @@ @], NoJob)

CreateService(c, service) ==
  IF service.ID \in DOMAIN data.Services
  THEN Reject(c, "CreateService", service, ErrServiceExists)
  ELSE LET stored == cloneService([service EXCEPT !.CreatedAt = now,
                                                  !.UpdatedAt = now])
       IN Commit(c, "CreateService", service,
                 [data EXCEPT !.Services = (service.ID :> stored) @@ @], NoJob)

UpdateService(c, service) ==
  IF service.ID \notin DOMAIN data.Services
  THEN Reject(c, "UpdateService", service, ErrNotFound)
  ELSE LET stored == cloneService([service EXCEPT !.UpdatedAt = now])
       IN Commit(c, "UpdateService", service,
                 [data EXCEPT !.Services[service.ID] = stored], NoJob)

\* what UpsertRepository leaves in *repo (and stores a clone of)
UpsertRepositoryValue(repo, repos, t) ==
  IF repo.ID \in DOMAIN repos
  THEN LET existing == repos[repo.ID]
       IN [repo EXCEPT
             !.CreatedAt = existing.CreatedAt,
             !.ServiceID = IF @ = "" THEN existing.ServiceID ELSE @,
             !.Environment = IF @ = "" THEN existing.Environment ELSE @,
             !.ComposePath = IF @ = <<>> THEN existing.ComposePath ELSE @,
             !.Installation =
               IF existing.Installation # "" /\ @ = ""
               THEN existing.Installation ELSE @,
             !.UpdatedAt = t]
  ELSE [repo EXCEPT !.CreatedAt = t, !.UpdatedAt = t]

UpsertRepository(c, repo) ==
  LET stored == cloneRepository(UpsertRepositoryValue(repo, data.Repos, now))
  IN Commit(c, "UpsertRepository", repo,
            [data EXCEPT !.Repos = (repo.ID :> stored) @@ @], NoJob)

DeleteRepository(c, id) ==
  IF id \notin DOMAIN data.Repos
  THEN Reject(c, "DeleteRepository", [ID |-> id], ErrNotFound)
  ELSE Commit(c, "DeleteRepository", [ID |-> id],
              [data EXCEPT !.Repos = [k \in DOMAIN @ \ {id} |-> @[k]]], NoJob)

\* what UpsertInstallation leaves in *inst (and stores a clone of)
UpsertInstallationValue(inst, installations, t) ==
  IF inst.ID \in DOMAIN installations
  THEN LET existing == installations[inst.ID]
       IN [inst EXCEPT
             !.CreatedAt = existing.CreatedAt,
             !.WebhookSecret = IF @ = "" THEN existing.WebhookSecret ELSE @,
             !.UpdatedAt = t]
  ELSE [inst EXCEPT !.CreatedAt = t, !.UpdatedAt = t]

UpsertInstallation(c, inst) ==
  LET stored == cloneInstallation(
                  UpsertInstallationValue(inst, data.Installations, now))
  IN Commit(c, "UpsertInstallation", inst,
            [data EXCEPT !.Installations = (inst.ID :> stored) @@ @], NoJob)

CreateBuildJob(c, job) ==
  LET j == CreateBuildJobValue(job, now)
  IN Commit(c, "CreateBuildJob", job,
            [data EXCEPT !.BuildJobs = (job.ID :> cloneBuildJob(j)) @@ @], j)

UpdateBuildJob(c, job) ==
  IF job.ID \notin DOMAIN data.BuildJobs
  THEN Reject(c, "UpdateBuildJob", job, ErrNotFound)
  ELSE LET j == UpdateBuildJobValue(job, now)
       IN Commit(c, "UpdateBuildJob", job,
                 [data EXCEPT !.BuildJobs[job.ID] = cloneBuildJob(j)], j)

\* store.New on the existing snapshot file, after the process was stopped:
\* load replaces the fresh empty maps by the decoded file; an empty file
\* leaves them empty; a file that does not decode makes New fail, and the
\* control plane does not start
Restart ==
  /\ file.kind # "truncated"
  /\ data' = IF file.kind = "json" THEN UnmarshalState(file.doc) ELSE EmptyState
  /\ mu' = MuFree
  /\ pc' = [p \in DOMAIN pc |-> "idle"]
  /\ loc' = [p \in DOMAIN loc |-> NoLoc]
  /\ ret' = [p \in DOMAIN ret |-> NoRet]
  /\ hist' = [hist EXCEPT !.op = "restart", !.err = Nil, !.arg = NoArg,
                          !.crash.at = IF @ = "down" THEN "restarted" ELSE @]
  /\ UNCHANGED <<file, now, heap, agent, worker>>

\* ------------------------------------------------------------------------
\* SpecClaim: ClaimCallers callers, each calling ClaimNextPendingBuildJob
\* once, against a store that holds up to ClaimJobs jobs and on which no
\* other operation runs
\* ------------------------------------------------------------------------
ClaimJobs == 2
ClaimCallers == 3
ClaimTimes == 2

ClaimJobIDs == {JobIDPool[i] : i \in 1..ClaimJobs}
Claimers == 1..ClaimCallers

\* a job as POST /v1/build-jobs hands it to CreateBuildJob
NewJob(id, status) ==
  BuildJob(id, "owner/repo", "refs/heads/main", "c0ffee", "", status, "", "",
           ZeroTime, ZeroTime, NilSlice, "", "", <<>>, ZeroTime, ZeroTime)

\* a job created at time t and since brought to the given status by the
\* store's own operations
JobInStatus(id, status, t) ==
  LET created == CreateBuildJobValue(NewJob(id, ""), t)
      claimed == ClaimTransition(created, "w0", t)
  IN CASE status = "pending" -> created
       [] status = "running" -> claimed
       [] OTHER -> UpdateBuildJobValue([claimed EXCEPT !.Status = status], t)

JobTables ==
  UNION {[ids -> 1..ClaimTimes] \X [ids -> Statuses] : ids \in SUBSET ClaimJobIDs}

InitClaim ==
  /\ \E tab \in JobTables :
       LET jobs == [id \in DOMAIN tab[1] |->
                      JobInStatus(id, tab[2][id], tab[1][id])]
           st == [EmptyState EXCEPT !.BuildJobs = jobs]
       IN /\ data = st
          /\ file = JsonFile(st)
          /\ hist = [NoHist EXCEPT !.m0 = Cardinality(PendingIDs(jobs)),
                                   !.prev0 = jobs]
  /\ mu = MuFree
  /\ heap = NoHeap
  /\ agent = NoAgent
  /\ worker = NoWorker
  /\ now = ClaimTimes
  /\ pc = [p \in Claimers |-> "idle"]
  /\ loc = [p \in Claimers |-> NoLoc]
  /\ ret = [p \in Claimers |-> NoRet]

NotYetCalled(p) == ret[p].op = None /\ pc[p] = "idle"

NextClaim ==
  \/ \E p \in Claimers : NotYetCalled(p) /\ ClaimLock(p)
  \/ \E p \in Claimers : ClaimScan(p)
  \/ \E p \in Claimers : ClaimCommit(p)

SpecClaim == InitClaim /\ [][NextClaim]_vars

Min(a, b) == IF a < b THEN a ELSE b

ClaimDone == {p \in DOMAIN ret : ret[p].op = "claim"}
ClaimWinners == {p \in ClaimDone : ret[p].err = Nil}
ClaimEmpty == {p \in ClaimDone : ret[p].err = ErrNotFound}

\* C1: of the callers that have returned, no two were handed the same job ID,
\* and (no snapshot write having failed) exactly min(N, M) of the N callers
\* were handed a job, every other one the empty-queue signal ErrNotFound.
ClaimAtomicity ==
  /\ \A p, q \in ClaimWinners : p # q => ret[p].job.ID # ret[q].job.ID
  /\ (\A p \in ClaimDone : ret[p].err # ErrPersist) =>
       /\ Cardinality(ClaimWinners) = Min(Cardinality(ClaimDone), hist.m0)
       /\ ClaimDone \ ClaimWinners = ClaimEmpty

\* more callers than pending jobs, all returned: two winners, one empty
ClaimAtomicityWitness ==
  /\ ClaimDone = Claimers
  /\ hist.m0 >= 2
  /\ Cardinality(ClaimWinners) = hist.m0
  /\ ClaimEmpty # {}

DistinctCreation(jobs) ==
  \A a, b \in PendingIDs(jobs) : a # b => jobs[a].CreatedAt # jobs[b].CreatedAt

\* C2: whenever the pending jobs had pairwise distinct creation times, the job
\* a claim returned was the pending job with the smallest creation time, and
\* the jobs returned so far came in increasing creation-time order.
OldestFirst ==
  /\ \A i \in DOMAIN hist.claims :
       LET c == hist.claims[i]
       IN DistinctCreation(c.before) =>
            /\ c.id \in PendingIDs(c.before)
            /\ \A o \in PendingIDs(c.before) \ {c.id} :
                 c.before[c.id].CreatedAt < c.before[o].CreatedAt
  /\ DistinctCreation(hist.prev0) =>
       \A i, j \in DOMAIN hist.claims :
         i < j => data.BuildJobs[hist.claims[i].id].CreatedAt
                    < data.BuildJobs[hist.claims[j].id].CreatedAt

\* two pending jobs created at different times have both been claimed
OldestFirstWitness ==
  /\ Len(hist.claims) >= 2
  /\ DistinctCreation(hist.prev0)

\* ------------------------------------------------------------------------
\* SpecStore: the store package driven through its exported operations by a
\* caller that may pass any value, with snapshot writes that may fail and
\* restarts of the process on the same file
\* ------------------------------------------------------------------------
ProjectIDs == {"p1"}
ServiceIDs == {"s1"}
RepoIDs == {"octo/app"}
InstallationIDs == {"octo-42"}
StoreJobIDs == {"j1"}

ProjectInputs == {Project(id, "web", "web", ZeroTime) : id \in ProjectIDs}

\* a service as createService builds it, and one carrying a domain and a
\* deployment as handleServiceDomains and handleServiceDeployments build them
ServiceInputs ==
  {Service(id, "p1", "api", "nginx:1.0", 8080, "", ZeroTime, ZeroTime, lists[1], lists[2]) :
     id \in ServiceIDs,
     lists \in {<<MkSlice(<<>>), MkSlice(<<>>)>>,
                <<MkSlice(<<Domain("d1", "s1", "production", "example.com", 1)>>),
                  MkSlice(<<Deployment("e1", "s1", "production", "nginx:1.1", 1)>>)>>}}

\* a repository with every optional field set, and one with none, its
\* default branch as an installation_repositories event may leave it
RepositoryInputs ==
  {Repository(id, "octo", "app", opt[5], opt[1], opt[2], opt[3], opt[4], ZeroTime, ZeroTime) :
     id \in RepoIDs,
     opt \in {<<<<>>, "", "", "", "">>, <<<<"c">>, "42", "s1", "staging", "main">>}}

InstallationInputs ==
  {Installation(id, "octo", "42", secret, ZeroTime, ZeroTime) :
     id \in InstallationIDs, secret \in {"", "s3cret"}}

\* jobs handed to CreateBuildJob: any status, with or without stale
\* lifecycle fields
CreateJobInputs ==
  {[NewJob(id, status) EXCEPT !.WorkerID = stale[1], !.StartedAt = stale[2],
                              !.CompletedAt = stale[3],
                              !.Artifacts = stale[4], !.ServiceID = stale[5],
                              !.ComposePath = stale[6]] :
     id \in StoreJobIDs, status \in {"", "succeeded"},
     stale \in {<<"", ZeroTime, ZeroTime, NilSlice, "", <<>>>>,
                <<"w9", 1, 1, MkSlice(<<"nginx:1.1">>), "s1", <<" ", "c">>>>}}

\* jobs handed to UpdateBuildJob: a copy read from the store, with a new
\* status and with the completion time as read or zeroed
UpdateJobInputs ==
  UNION {{[data.BuildJobs[id] EXCEPT !.Status = status, !.CompletedAt = completed] :
            status \in Statuses,
            completed \in {data.BuildJobs[id].CompletedAt, ZeroTime}} :
         id \in DOMAIN data.BuildJobs}

StoreCaller == 1

InitStore ==
  /\ data = EmptyState
  /\ file = JsonFile(EmptyState)
  /\ mu = MuFree
  /\ now = 1
  /\ pc = [p \in {StoreCaller} |-> "idle"]
  /\ loc = [p \in {StoreCaller} |-> NoLoc]
  /\ ret = [p \in {StoreCaller} |-> NoRet]
  /\ hist = NoHist
  /\ heap = NoHeap
  /\ agent = NoAgent
  /\ worker = NoWorker

\* the caller is between two operations and has operations left to run
Idle(c) == pc[c] = "idle" /\ hist.ops < MaxOps

NextStore ==
  \/ Tick
  \/ Restart
  \/ \E p \in ProjectInputs : Idle(StoreCaller) /\ CreateProject(StoreCaller, p)
  \/ \E svc \in ServiceInputs : Idle(StoreCaller) /\ CreateService(StoreCaller, svc)
  \/ \E svc \in ServiceInputs : Idle(StoreCaller) /\ UpdateService(StoreCaller, svc)
  \/ \E repo \in RepositoryInputs : Idle(StoreCaller) /\ UpsertRepository(StoreCaller, repo)
  \/ \E id \in RepoIDs : Idle(StoreCaller) /\ DeleteRepository(StoreCaller, id)
  \/ \E inst \in InstallationInputs : Idle(StoreCaller) /\ UpsertInstallation(StoreCaller, inst)
  \/ \E job \in CreateJobInputs : Idle(StoreCaller) /\ CreateBuildJob(StoreCaller, job)
  \/ \E job \in UpdateJobInputs : Idle(StoreCaller) /\ UpdateBuildJob(StoreCaller, job)
  \/ Idle(StoreCaller) /\ ClaimLock(StoreCaller)
  \/ ClaimScan(StoreCaller)
  \/ ClaimCommit(StoreCaller)

SpecStore == InitStore /\ [][NextStore]_vars

\* the step completes an operation named op
StepOf(op) == hist'.ops = hist.ops + 1 /\ hist'.op = op

MutatingOps ==
  {"CreateProject", "CreateService", "UpdateService", "UpsertRepository",
   "DeleteRepository", "UpsertInstallation", "CreateBuildJob",
   "UpdateBuildJob", "claim"}

\* C3: a mutating store operation whose snapshot write fails returns the
\* error and leaves the in-memory state as it was before the call.
PersistFailureNoMutation ==
  [][(hist'.ops = hist.ops + 1 /\ hist'.op \in MutatingOps
        /\ hist'.err = ErrPersist) => data' = data]_vars

ExistsIn(op, id) ==
  \/ op = "CreateProject" /\ id \in DOMAIN data.Projects
  \/ op = "CreateService" /\ id \in DOMAIN data.Services
  \/ op = "CreateBuildJob" /\ id \in DOMAIN data.BuildJobs

\* C5: CreateProject, CreateService and CreateBuildJob called with an ID the
\* store already holds fail with an already-exists error and leave the
\* stored entity unchanged.
CreateRejectsExisting ==
  [][(hist'.ops = hist.ops + 1 /\ ExistsIn(hist'.op, hist'.arg.ID)) =>
       (hist'.err \notin {Nil, ErrPersist} /\ data' = data)]_vars

\* C14: UpsertRepository and UpsertInstallation on an existing ID merge
\* field by field: every field left empty in the incoming value keeps the
\* stored value and every non-empty field overwrites it
UpsertMerges ==
  [][/\ (StepOf("UpsertRepository") /\ hist'.arg.ID \in DOMAIN data.Repos)
          => LET incoming == hist'.arg
                 before == data.Repos[incoming.ID]
                 after == data'.Repos[incoming.ID]
             IN /\ \A f \in {"Owner", "Name", "DefaultBranch", "Installation",
                              "ServiceID", "Environment"} :
                     after[f] = IF incoming[f] = "" THEN before[f] ELSE incoming[f]
                /\ after.ComposePath = IF incoming.ComposePath = <<>>
                                       THEN before.ComposePath
                                       ELSE incoming.ComposePath
     /\ (StepOf("UpsertInstallation")
           /\ hist'.arg.ID \in DOMAIN data.Installations)
          => LET incoming == hist'.arg
                 before == data.Installations[incoming.ID]
                 after == data'.Installations[incoming.ID]
             IN \A f \in {"Account", "ExternalID", "WebhookSecret"} :
                  after[f] = IF incoming[f] = "" THEN before[f] ELSE incoming[f]]_vars

\* C7: right after a successful CreateBuildJob the stored job has an empty
\* worker ID and zero start and completion times, whatever the caller put
\* in those fields.
CreationResetsLifecycle ==
  (hist.op = "CreateBuildJob" /\ hist.err = Nil) =>
    LET job == data.BuildJobs[hist.arg.ID]
    IN job.WorkerID = "" /\ IsZero(job.StartedAt) /\ IsZero(job.CompletedAt)

\* a job was created from a value carrying a worker and both times
CreationResetsWitness ==
  /\ hist.op = "CreateBuildJob"
  /\ hist.err = Nil
  /\ hist.arg.WorkerID # ""
  /\ ~IsZero(hist.arg.StartedAt)
  /\ ~IsZero(hist.arg.CompletedAt)

\* C10: an UpdateBuildJob that takes a stored job from succeeded or failed
\* to a non-terminal status leaves it with a zero completion time.
ReopenClearsCompletion ==
  [][\A id \in DOMAIN data.BuildJobs :
       (StepOf("UpdateBuildJob") /\ hist'.arg.ID = id
          /\ IsTerminal(data.BuildJobs[id].Status)
          /\ ~IsTerminal(data'.BuildJobs[id].Status))
       => IsZero(data'.BuildJobs[id].CompletedAt)]_vars

\* a job that carried a completion time was updated to a non-terminal status
ReopenWitness ==
  /\ hist.op = "UpdateBuildJob"
  /\ hist.err = Nil
  /\ ~IsTerminal(hist.arg.Status)
  /\ ~IsZero(hist.arg.CompletedAt)
  /\ IsZero(data.BuildJobs[hist.arg.ID].CompletedAt)

\* ------------------------------------------------------------------------
\* Spec: the build-job endpoints of the HTTP API, each request served by
\* its own goroutine (net/http), NumProcs requests in flight at most
\* ------------------------------------------------------------------------
ErrBadRequest == "400 repository and commit required"

\* newID(): 12 random bytes, hex encoded; an identifier no job carries yet
newID == JobIDPool[Cardinality(DOMAIN data.BuildJobs) + 1]

\* bodies of POST /v1/build-jobs
PostPayloads ==
  [Repository : {"owner/repo"}, Commit : {"", "c0ffee"},
   Status : {"", "succeeded"}, Artifacts : {NilSlice}]

\* bodies of PATCH /v1/build-jobs/{id}
PatchPayload(status, reason, artifacts, composePath) ==
  [Status |-> status, Reason |-> reason, Artifacts |-> artifacts, ComposePath |-> composePath]

PatchPayloads ==
  {PatchPayload(status, "", NilSlice, <<>>) : status \in {"pending", "running", "succeeded"}}
    \cup {PatchPayload("failed", "boom", NilSlice, <<>>),
          PatchPayload("", "", MkSlice(<<"nginx:1.1">>), <<>>),
          PatchPayload("", "", MkSlice(<<>>), <<"c">>)}

\* handleBuildJobs, POST: the payload's fields, its status included, are
\* copied into a job with a fresh ID, which goes to CreateBuildJob
PostBuildJob(p, payload) ==
  /\ pc[p] = "idle"
  /\ hist.ops < MaxOps
  /\ Cardinality(DOMAIN data.BuildJobs) < MaxJobs
  /\ IF payload.Repository = "" \/ payload.Commit = ""
     THEN /\ ret' = [ret EXCEPT ![p] =
                       [op |-> "POST", err |-> ErrBadRequest, job |-> NoJob]]
          /\ UNCHANGED <<data, file, mu, now, pc, loc, hist, heap, agent, worker>>
     ELSE CreateBuildJob(p,
            [NewJob(newID, payload.Status) EXCEPT
               !.Repository = payload.Repository,
               !.Commit = payload.Commit,
               !.Artifacts = payload.Artifacts])

\* handleBuildJob, PATCH, first store call: GetBuildJob under the read lock
\* returns a copy of the stored job, or ErrNotFound (answered 404)
PatchGet(p, id) ==
  /\ pc[p] = "idle"
  /\ hist.ops < MaxOps
  /\ RLocked
  /\ IF id \in DOMAIN data.BuildJobs
     THEN /\ pc' = [pc EXCEPT ![p] = "patch_read"]
          /\ ret' = [ret EXCEPT ![p] =
                       [op |-> "GetBuildJob", err |-> Nil,
                        job |-> cloneBuildJob(data.BuildJobs[id])]]
     ELSE /\ ret' = [ret EXCEPT ![p] =
                       [op |-> "GetBuildJob", err |-> ErrNotFound, job |-> NoJob]]
          /\ UNCHANGED pc
  /\ UNCHANGED <<data, file, now, loc, hist, heap, agent, worker>>

\* lines 702-711: the payload is applied to the copy that was read
ApplyPatch(job, payload) ==
  [job EXCEPT
     !.Status = IF payload.Status # "" THEN payload.Status ELSE @,
     !.Artifacts = IF ~payload.Artifacts.isNil THEN payload.Artifacts ELSE @,
     !.ComposePath = IF payload.ComposePath # <<>> THEN payload.ComposePath ELSE @,
     !.Reason = payload.Reason]

\* handleBuildJob, PATCH, second store call: the body is decoded, applied
\* to the copy read earlier, and the copy goes to UpdateBuildJob
PatchUpdate(p, payload) ==
  /\ pc[p] = "patch_read"
  /\ ret[p].op = "GetBuildJob"
  /\ UpdateBuildJob(p, ApplyPatch(ret[p].job, payload))

\* lines 712-716: the response is written and the request ends, its local
\* variables with it
PatchRespond(p) ==
  /\ pc[p] = "patch_read"
  /\ ret[p].op = "UpdateBuildJob"
  /\ pc' = [pc EXCEPT ![p] = "idle"]
  /\ ret' = [ret EXCEPT ![p] = NoRet]
  /\ UNCHANGED <<data, file, mu, now, loc, hist, heap, agent, worker>>

Init ==
  /\ data = EmptyState
  /\ file = JsonFile(EmptyState)
  /\ mu = MuFree
  /\ now = 1
  /\ pc = [p \in Procs |-> "idle"]
  /\ loc = [p \in Procs |-> NoLoc]
  /\ ret = [p \in Procs |-> NoRet]
  /\ hist = NoHist
  /\ heap = NoHeap
  /\ agent = NoAgent
  /\ worker = NoWorker

Next ==
  \/ Tick
  \/ \E p \in Procs, payload \in PostPayloads : PostBuildJob(p, payload)
  \/ \E p \in Procs, id \in JobIDs : PatchGet(p, id)
  \/ \E p \in Procs, payload \in PatchPayloads : PatchUpdate(p, payload)
  \/ \E p \in Procs : PatchRespond(p)
  \/ \E p \in Procs : hist.ops < MaxOps /\ ClaimLock(p)
  \/ \E p \in Procs : ClaimScan(p)
  \/ \E p \in Procs : ClaimCommit(p)

Spec == Init /\ [][Next]_vars

\* C8: every build job, immediately after its creation through
\* CreateBuildJob or POST /v1/build-jobs, has status pending, whatever
\* status the caller supplied
CreatedPending ==
  (hist.op = "CreateBuildJob" /\ hist.err = Nil)
    => data.BuildJobs[hist.arg.ID].Status = "pending"

\* C9: an update that moves a job into succeeded or failed sets its
\* completion time, and a later update that leaves the job in a terminal
\* status keeps that completion time unchanged
CompletionSetOnce ==
  [][\A id \in DOMAIN data.BuildJobs :
       (StepOf("UpdateBuildJob") /\ hist'.arg.ID = id
          /\ IsTerminal(data'.BuildJobs[id].Status))
         => /\ ~IsZero(data'.BuildJobs[id].CompletedAt)
            /\ (IsTerminal(data.BuildJobs[id].Status)
                  /\ ~IsZero(data.BuildJobs[id].CompletedAt))
                 => data'.BuildJobs[id].CompletedAt
                      = data.BuildJobs[id].CompletedAt]_vars

\* handleBuildJobClaim, lines 741-750: the answer to what
\* ClaimNextPendingBuildJob returned
ClaimResponse(r) ==
  CASE r.err = Nil -> [code |-> 200, body |-> r.job]
    [] r.err = ErrNotFound -> [code |-> 204, body |-> NoJob]
    [] OTHER -> [code |-> 500, body |-> NoJob]

\* C12: when no job is pending, ClaimNextPendingBuildJob returns the no-job
\* signal, changes no entity, and the endpoint answers 204; when a pending
\* job exists and the write succeeds, it answers 200 with that job, now
\* running
EmptyQueueSignal ==
  [][\A p \in DOMAIN ret :
       (StepOf("claim") /\ ret'[p] # ret[p])
         => LET resp == ClaimResponse(ret'[p])
                pending == PendingIDs(data.BuildJobs)
            IN /\ pending = {}
                    => /\ ret'[p].err = ErrNotFound
                       /\ resp.code = 204
                       /\ data' = data /\ file' = file
               /\ (pending # {} /\ ret'[p].err # ErrPersist)
                    => /\ resp.code = 200
                       /\ resp.body.ID \in pending
                       /\ resp.body.Status = "running"
                       /\ data'.BuildJobs[resp.body.ID] = resp.body]_vars

\* a claim found jobs in the store, none of them pending
EmptyQueueWitness ==
  /\ hist.op = "claim" /\ hist.err = ErrNotFound
  /\ DOMAIN data.BuildJobs # {}
  /\ \E p \in DOMAIN ret : ret[p].op = "claim" /\ ClaimResponse(ret[p]).code = 204

\* C11: a PATCH /v1/build-jobs/{id} applies only the fields that are
\* non-empty in the request: each of status, reason, artifacts and compose
\* path that is empty or absent in the request keeps its stored value
PatchIsPartial ==
  [][\A p \in Procs, payload \in PatchPayloads :
       PatchUpdate(p, payload)
         => LET before == data.BuildJobs[ret[p].job.ID]
                after == data'.BuildJobs[ret[p].job.ID]
            IN /\ payload.Status = "" => after.Status = before.Status
               /\ payload.Reason = "" => after.Reason = before.Reason
               /\ payload.Artifacts.elems = <<>>
                    => after.Artifacts = before.Artifacts
               /\ payload.ComposePath = <<>>
                    => after.ComposePath = before.ComposePath]_vars

\* ------------------------------------------------------------------------
\* SpecAlias: the store by reference. One caller builds structs, hands
\* their pointers to the store, receives pointers from it, and writes
\* through every pointer it holds
\* ------------------------------------------------------------------------
MaxHeapOps == 4

\* a slice as a caller builds it: nil, empty, or of one element
SliceInputs == {NilSlice, MkSlice(<<>>), MkSlice(<<"a">>)}

NewArray(h, elems) == [h EXCEPT !.arrays = Append(@, elems)]

\* a slice literal of the caller: a nil slice has no backing array
MakeSlice(h, xs) ==
  IF xs.isNil THEN [h |-> h, addr |-> 0]
  ELSE [h |-> NewArray(h, xs.elems), addr |-> Len(h.arrays) + 1]

AppendSharing(h, a) == [h |-> h, addr |-> a]

\* append([]T(nil), xs...) for the slice whose backing array is at a: nil
\* for no element, else a new backing array holding the same elements
AppendToNilAt(h, a) ==
  IF a = 0 \/ Len(h.arrays[a]) = 0 THEN [h |-> h, addr |-> 0]
  ELSE [h |-> NewArray(h, h.arrays[a]), addr |-> Len(h.arrays) + 1]

\* "if x.F != nil { copy.F = append([]T(nil), x.F...) }"
CopyIfNotNil(h, a) == IF a = 0 THEN [h |-> h, addr |-> 0] ELSE AppendToNilAt(h, a)

\* cloneBuildJob on the struct at address j: a new struct, and a new
\* backing array for its Artifacts
cloneBuildJobPtr(h, j) ==
  LET r == CopyIfNotNil(h, h.jobs[j].Artifacts)
      h2 == [r.h EXCEPT !.jobs = Append(@, [h.jobs[j] EXCEPT !.Artifacts = r.addr])]
  IN [h |-> h2, addr |-> Len(h2.jobs)]

\* cloneService on the struct at address a
cloneServicePtr(h, a) ==
  LET d == CopyIfNotNil(h, h.svcs[a].Domains)
      e == CopyIfNotNil(d.h, h.svcs[a].Deployments)
      h2 == [e.h EXCEPT !.svcs = Append(@, [h.svcs[a] EXCEPT
                                              !.Domains = d.addr,
                                              !.Deployments = e.addr])]
  IN [h |-> h2, addr |-> Len(h2.svcs)]

Held(kind, addr, origin) == [kind |-> kind, addr |-> addr, origin |-> origin]
HeldJobs == {x \in heap.held : x.kind = "job"}
HeldServices == {x \in heap.held : x.kind = "service"}

\* the caller's pointer x was handed to the store
Passed(held, x) == (held \ {x}) \cup {Held(x.kind, x.addr, "passed")}

\* one more step of the caller, named op, on a struct of the given origin
AliasStep(h, op, origin) ==
  /\ heap.n < MaxHeapOps
  /\ heap' = [h EXCEPT !.n = @ + 1, !.last = [op |-> op, origin |-> origin]]
  /\ UNCHANGED <<data, file, mu, now, pc, loc, ret, hist, agent, worker>>

\* the caller's &models.BuildJob{...}
NewBuildJob(status, artifacts) ==
  LET r == MakeSlice(heap, artifacts)
      h2 == [r.h EXCEPT !.jobs = Append(@, [ID |-> "j1", Status |-> status,
                                            Artifacts |-> r.addr])]
  IN AliasStep([h2 EXCEPT !.held = @ \cup {Held("job", Len(h2.jobs), "new")}],
               "new", "new")

\* the caller's &models.Service{...}
NewService(domains, deployments) ==
  LET d == MakeSlice(heap, domains)
      e == MakeSlice(d.h, deployments)
      h2 == [e.h EXCEPT !.svcs = Append(@, [ID |-> "s1", Image |-> "nginx:1.0",
                                            Domains |-> d.addr,
                                            Deployments |-> e.addr])]
  IN AliasStep([h2 EXCEPT !.held = @ \cup {Held("service", Len(h2.svcs), "new")}],
               "new", "new")

\* "job.Artifacts = append([]string(nil), job.Artifacts...)" on the
\* caller's struct at address j
ReplaceArtifacts(h, j) ==
  LET r == AppendToNilAt(h, h.jobs[j].Artifacts)
  IN [r.h EXCEPT !.jobs[j].Artifacts = r.addr]

\* CreateBuildJob(job): fields of the caller's struct are assigned, the
\* map receives a clone of it
CreateBuildJobPtr(x) ==
  LET h1 == [heap EXCEPT !.jobs[x.addr].Status = IF @ = "" THEN "pending" ELSE @]
      c == cloneBuildJobPtr(ReplaceArtifacts(h1, x.addr), x.addr)
  IN AliasStep([c.h EXCEPT !.BuildJobs = (h1.jobs[x.addr].ID :> c.addr) @@ @,
                           !.held = Passed(@, x)],
               "CreateBuildJob", x.origin)

\* UpdateBuildJob(job)
UpdateBuildJobPtr(x) ==
  /\ heap.jobs[x.addr].ID \in DOMAIN heap.BuildJobs
  /\ LET c == cloneBuildJobPtr(ReplaceArtifacts(heap, x.addr), x.addr)
     IN AliasStep([c.h EXCEPT !.BuildJobs[heap.jobs[x.addr].ID] = c.addr,
                              !.held = Passed(@, x)],
                  "UpdateBuildJob", x.origin)

\* GetBuildJob(id), and ListBuildJobs for each job it returns
GetBuildJobPtr(id) ==
  /\ id \in DOMAIN heap.BuildJobs
  /\ LET c == cloneBuildJobPtr(heap, heap.BuildJobs[id])
     IN AliasStep([c.h EXCEPT !.held = @ \cup {Held("job", c.addr, "returned")}],
                  "GetBuildJob", "returned")

\* ClaimNextPendingBuildJob, lines 437-449: the stored struct is assigned
\* in place, the map receives a clone of it, the caller another clone
ClaimPtr(id) ==
  /\ id \in DOMAIN heap.BuildJobs
  /\ heap.jobs[heap.BuildJobs[id]].Status = "pending"
  /\ LET job == heap.BuildJobs[id]
         h1 == [heap EXCEPT !.jobs[job].Status = "running"]
         c1 == cloneBuildJobPtr(h1, job)
         h2 == [c1.h EXCEPT !.BuildJobs[id] = c1.addr]
         c2 == cloneBuildJobPtr(h2, job)
     IN AliasStep([c2.h EXCEPT !.held = @ \cup {Held("job", c2.addr, "returned")}],
                  "claim", "returned")

\* CreateService(service)
CreateServicePtr(x) ==
  /\ heap.svcs[x.addr].ID \notin DOMAIN heap.Services
  /\ LET c == cloneServicePtr(heap, x.addr)
     IN AliasStep([c.h EXCEPT !.Services = (heap.svcs[x.addr].ID :> c.addr) @@ @,
                              !.held = Passed(@, x)],
                  "CreateService", x.origin)

\* UpdateService(service)
UpdateServicePtr(x) ==
  /\ heap.svcs[x.addr].ID \in DOMAIN heap.Services
  /\ LET c == cloneServicePtr(heap, x.addr)
     IN AliasStep([c.h EXCEPT !.Services[heap.svcs[x.addr].ID] = c.addr,
                              !.held = Passed(@, x)],
                  "UpdateService", x.origin)

\* GetService(id), and ListServicesByProject for each service it returns
GetServicePtr(id) ==
  /\ id \in DOMAIN heap.Services
  /\ LET c == cloneServicePtr(heap, heap.Services[id])
     IN AliasStep([c.h EXCEPT !.held = @ \cup {Held("service", c.addr, "returned")}],
                  "GetService", "returned")

\* the caller assigns a field of a struct it holds: job.Status = ...,
\* svc.Image = ...
SetField(x) ==
  AliasStep(IF x.kind = "job"
            THEN [heap EXCEPT !.jobs[x.addr].Status = "mutated"]
            ELSE [heap EXCEPT !.svcs[x.addr].Image = "mutated"],
            "SetField", x.origin)

\* the backing arrays a held struct's slices point to
ArraysOf(x) ==
  (IF x.kind = "job" THEN {heap.jobs[x.addr].Artifacts}
   ELSE {heap.svcs[x.addr].Domains, heap.svcs[x.addr].Deployments}) \ {0}

\* the caller assigns an element of a slice of a struct it holds:
\* job.Artifacts[0] = ..., svc.Domains[0] = ...
SetElem(x, a) ==
  /\ Len(heap.arrays[a]) > 0
  /\ AliasStep([heap EXCEPT !.arrays[a][1] = "mutated"], "SetElem", x.origin)

InitAlias ==
  /\ data = EmptyState
  /\ file = JsonFile(EmptyState)
  /\ mu = MuFree
  /\ now = 1
  /\ pc = [p \in {StoreCaller} |-> "idle"]
  /\ loc = [p \in {StoreCaller} |-> NoLoc]
  /\ ret = [p \in {StoreCaller} |-> NoRet]
  /\ hist = NoHist
  /\ heap = NoHeap
  /\ agent = NoAgent
  /\ worker = NoWorker

NextAlias ==
  \/ \E status \in {"", "failed"}, artifacts \in SliceInputs :
       NewBuildJob(status, artifacts)
  \/ \E domains \in SliceInputs, deployments \in SliceInputs :
       NewService(domains, deployments)
  \/ \E x \in HeldJobs : CreateBuildJobPtr(x)
  \/ \E x \in HeldJobs : UpdateBuildJobPtr(x)
  \/ \E id \in StoreJobIDs : GetBuildJobPtr(id)
  \/ \E id \in StoreJobIDs : ClaimPtr(id)
  \/ \E x \in HeldServices : CreateServicePtr(x)
  \/ \E x \in HeldServices : UpdateServicePtr(x)
  \/ \E id \in ServiceIDs : GetServicePtr(id)
  \/ \E x \in heap.held : SetField(x)
  \/ \E x \in heap.held : \E a \in ArraysOf(x) : SetElem(x, a)

SpecAlias == InitAlias /\ [][NextAlias]_vars

\* a slice as a store read sees it
SliceAt(a) == IF a = 0 THEN NilSlice ELSE MkSlice(heap.arrays[a])

\* what Get* and List* read from the store
StoreView ==
  [BuildJobs |-> [id \in DOMAIN heap.BuildJobs |->
                    LET job == heap.jobs[heap.BuildJobs[id]]
                    IN [job EXCEPT !.Artifacts = SliceAt(@)]],
   Services |-> [id \in DOMAIN heap.Services |->
                   LET svc == heap.svcs[heap.Services[id]]
                   IN [svc EXCEPT !.Domains = SliceAt(@),
                                  !.Deployments = SliceAt(@)]]]

CallerWrites == {"SetField", "SetElem"}

\* C6: a caller writing through a pointer it passed to a Create*/Update*
\* call or received from a Get*, List* or claim call, a write to an element
\* of its Domains, Deployments or Artifacts included, does not change what
\* store reads return
CopyIsolation ==
  [][(heap'.n = heap.n + 1 /\ heap'.last.op \in CallerWrites)
       => StoreView' = StoreView]_vars

\* the caller has written an element of a slice of a struct the store
\* returned, while the store holds a non-empty slice
CopyIsolationWitness ==
  /\ heap.last = [op |-> "SetElem", origin |-> "returned"]
  /\ \E id \in DOMAIN heap.BuildJobs : StoreView.BuildJobs[id].Artifacts.elems # <<>>

\* ------------------------------------------------------------------------
\* SpecDeploy: POST /v1/services/{id}/deployments, NumProcs requests in
\* flight at most, on a service that createService has stored
\* ------------------------------------------------------------------------
ErrImageRequired == "400 image required"
ErrServiceNotFound == "404 service not found"

DeployServiceID == "s1"
DeployIDPool == <<"e1", "e2", "e3", "e4", "e5", "e6">>

\* bodies of POST /v1/services/{id}/deployments
DeployPayloads == [Environment : {"", "staging"}, Image : {"", "img1", "img2"}]

\* lines 544-546: an absent environment is production
DeployEnvironment(payload) ==
  IF payload.Environment = "" THEN "production" ELSE payload.Environment

\* lines 560-570: the first entry of the environment is replaced in place,
\* or the deployment is appended
ReplaceOrAppend(deployments, deployment) ==
  LET hits == {i \in DOMAIN deployments.elems :
                 deployments.elems[i].Environment = deployment.Environment}
  IN IF hits = {}
     THEN MkSlice(Append(deployments.elems, deployment))
     ELSE LET idx == CHOOSE i \in hits : \A j \in hits : i <= j
          IN MkSlice([deployments.elems EXCEPT ![idx] = deployment])

\* handleServiceDeployments, line 522: GetService under the read lock
\* returns a copy of the stored service, or ErrNotFound (answered 404)
DeployGet(p, id) ==
  /\ pc[p] = "idle"
  /\ hist.ops < MaxOps
  /\ RLocked
  /\ IF id \in DOMAIN data.Services
     THEN /\ pc' = [pc EXCEPT ![p] = "deploy_read"]
          /\ ret' = [ret EXCEPT ![p] =
                       [op |-> "GetService", err |-> Nil,
                        job |-> cloneService(data.Services[id])]]
     ELSE /\ ret' = [ret EXCEPT ![p] =
                       [op |-> "GetService", err |-> ErrServiceNotFound,
                        job |-> NoJob]]
          /\ UNCHANGED pc
  /\ UNCHANGED <<data, file, now, loc, hist, heap, agent, worker>>

\* lines 535-576: the body is decoded; a body without image is answered
\* 400; else the deployment is put into the copy read earlier and the copy
\* goes to UpdateService (store.go 172-183), which stamps it, stores a clone
\* and writes the snapshot
DeployUpdate(p, payload) ==
  /\ pc[p] = "deploy_read"
  /\ ret[p].op = "GetService"
  /\ IF payload.Image = ""
     THEN /\ pc' = [pc EXCEPT ![p] = "idle"]
          /\ ret' = [ret EXCEPT ![p] =
                       [op |-> "POST", err |-> ErrImageRequired, job |-> NoJob]]
          /\ UNCHANGED <<data, file, mu, now, loc, hist, heap, agent, worker>>
     ELSE LET env == DeployEnvironment(payload)
              deployment == Deployment(DeployIDPool[hist.ops + 1], ret[p].job.ID,
                                       env, payload.Image, now)
              service == [ret[p].job EXCEPT
                            !.Deployments = ReplaceOrAppend(@, deployment),
                            !.Image = payload.Image]
              stored == cloneService([service EXCEPT !.UpdatedAt = now])
              next == [data EXCEPT !.Services[service.ID] = stored]
          IN /\ Locked
             /\ \E w \in Writes(next) :
                  /\ data' = next
                  /\ file' = w.file
                  /\ ret' = [ret EXCEPT ![p] =
                               [op |-> "UpdateService",
                                err |-> IF w.ok THEN Nil ELSE ErrPersist,
                                job |-> NoJob]]
                  /\ hist' = [hist EXCEPT
                                !.op = "UpdateService",
                                !.err = IF w.ok THEN Nil ELSE ErrPersist,
                                !.arg = service, !.ops = @ + 1,
                                !.fails = IF w.ok THEN @ ELSE @ + 1,
                                !.accepted = IF w.ok
                                             THEN (env :> payload.Image) @@ @
                                             ELSE @]
             /\ UNCHANGED <<now, pc, loc, heap, agent, worker>>

\* lines 577-578: the response is written and the request ends
DeployRespond(p) ==
  /\ pc[p] = "deploy_read"
  /\ ret[p].op = "UpdateService"
  /\ pc' = [pc EXCEPT ![p] = "idle"]
  /\ ret' = [ret EXCEPT ![p] = NoRet]
  /\ UNCHANGED <<data, file, mu, now, loc, hist, heap, agent, worker>>

\* the store after createProject and createService
DeployState ==
  [EmptyState EXCEPT
     !.Projects = "p1" :> cloneProject(Project("p1", "web", "web", 1)),
     !.Services = DeployServiceID :>
                    cloneService(Service(DeployServiceID, "p1", "api", "nginx:1.0",
                                         8080, "", 1, 1, MkSlice(<<>>),
                                         MkSlice(<<>>)))]

InitDeploy ==
  /\ data = DeployState
  /\ file = JsonFile(DeployState)
  /\ mu = MuFree
  /\ now = 1
  /\ pc = [p \in Procs |-> "idle"]
  /\ loc = [p \in Procs |-> NoLoc]
  /\ ret = [p \in Procs |-> NoRet]
  /\ hist = NoHist
  /\ heap = NoHeap
  /\ agent = NoAgent
  /\ worker = NoWorker

NextDeploy ==
  \/ Tick
  \/ \E p \in Procs, id \in {DeployServiceID, "s2"} : DeployGet(p, id)
  \/ \E p \in Procs, payload \in DeployPayloads : DeployUpdate(p, payload)
  \/ \E p \in Procs : DeployRespond(p)

SpecDeploy == InitDeploy /\ [][NextDeploy]_vars

\* the deployment entries of a service for one environment
EntriesFor(svc, env) ==
  {i \in DOMAIN svc.Deployments.elems : svc.Deployments.elems[i].Environment = env}

\* C13: after any sequence of POST /v1/services/{id}/deployments requests
\* the service has at most one deployment entry per environment, and the
\* entry for an environment carries the image of the last request accepted
\* for that environment
DeploymentPerEnvironment ==
  LET svc == data.Services[DeployServiceID]
  IN \A env \in {"production", "staging"} :
       /\ Cardinality(EntriesFor(svc, env)) <= 1
       /\ \A i \in EntriesFor(svc, env) :
            /\ env \in DOMAIN hist.accepted
            /\ svc.Deployments.elems[i].Image = hist.accepted[env]

\* ------------------------------------------------------------------------
\* SpecLock: NumProcs callers running GetBuildJob, UpdateBuildJob and
\* ClaimNextPendingBuildJob concurrently, each operation stepping from its
\* Lock or RLock through its body to its deferred unlock
\* ------------------------------------------------------------------------
\* GetBuildJob, lines 453-454
GetRLock(p, id) ==
  /\ pc[p] = "idle"
  /\ RLock(p)
  /\ pc' = [pc EXCEPT ![p] = "get_rlocked"]
  /\ loc' = [loc EXCEPT ![p] = [NoLoc EXCEPT !.sel = id]]
  /\ ret' = [ret EXCEPT ![p] = NoRet]
  /\ UNCHANGED <<data, file, now, hist, heap, agent, worker>>

\* GetBuildJob, lines 456-460
GetReturn(p) ==
  /\ pc[p] = "get_rlocked"
  /\ ret' = [ret EXCEPT ![p] =
               IF loc[p].sel \in DOMAIN data.BuildJobs
               THEN [op |-> "GetBuildJob", err |-> Nil,
                     job |-> cloneBuildJob(data.BuildJobs[loc[p].sel])]
               ELSE [op |-> "GetBuildJob", err |-> ErrNotFound, job |-> NoJob]]
  /\ pc' = [pc EXCEPT ![p] = "idle"]
  /\ loc' = [loc EXCEPT ![p] = NoLoc]
  /\ RUnlock(p)
  /\ UNCHANGED <<data, file, now, hist, heap, agent, worker>>

\* UpdateBuildJob, lines 383-384
UpdateLock(p, job) ==
  /\ pc[p] = "idle"
  /\ hist.ops < MaxOps
  /\ Lock(p)
  /\ pc' = [pc EXCEPT ![p] = "update_locked"]
  /\ loc' = [loc EXCEPT ![p] = [NoLoc EXCEPT !.job = job]]
  /\ ret' = [ret EXCEPT ![p] = NoRet]
  /\ UNCHANGED <<data, file, now, hist, heap, agent, worker>>

\* UpdateBuildJob, lines 386-400
UpdateBody(p) ==
  /\ pc[p] = "update_locked"
  /\ LET job == loc[p].job
     IN IF job.ID \notin DOMAIN data.BuildJobs
        THEN /\ ret' = [ret EXCEPT ![p] =
                          [op |-> "UpdateBuildJob", err |-> ErrNotFound,
                           job |-> NoJob]]
             /\ hist' = [hist EXCEPT !.op = "UpdateBuildJob",
                                     !.err = ErrNotFound, !.arg = job,
                                     !.ops = @ + 1]
             /\ UNCHANGED <<data, file>>
        ELSE LET j == UpdateBuildJobValue(job, now)
                 next == [data EXCEPT !.BuildJobs[job.ID] = cloneBuildJob(j)]
             IN \E w \in Writes(next) :
                  /\ data' = next
                  /\ file' = w.file
                  /\ ret' = [ret EXCEPT ![p] =
                               [op |-> "UpdateBuildJob",
                                err |-> IF w.ok THEN Nil ELSE ErrPersist,
                                job |-> j]]
                  /\ hist' = [hist EXCEPT
                                !.op = "UpdateBuildJob",
                                !.err = IF w.ok THEN Nil ELSE ErrPersist,
                                !.arg = job, !.ops = @ + 1,
                                !.fails = IF w.ok THEN @ ELSE @ + 1]
  /\ pc' = [pc EXCEPT ![p] = "idle"]
  /\ loc' = [loc EXCEPT ![p] = NoLoc]
  /\ Unlock(p)
  /\ UNCHANGED <<now, heap, agent, worker>>

\* the store holding one pending job
LockState ==
  [EmptyState EXCEPT !.BuildJobs = "j1" :> JobInStatus("j1", "pending", 1)]

InitLock ==
  /\ data = LockState
  /\ file = JsonFile(LockState)
  /\ mu = MuFree
  /\ now = 1
  /\ pc = [p \in Procs |-> "idle"]
  /\ loc = [p \in Procs |-> NoLoc]
  /\ ret = [p \in Procs |-> NoRet]
  /\ hist = NoHist
  /\ heap = NoHeap
  /\ agent = NoAgent
  /\ worker = NoWorker

\* jobs handed to UpdateBuildJob: a copy read from the store, with a status
LockJobInputs ==
  {[data.BuildJobs[id] EXCEPT !.Status = status] :
     id \in DOMAIN data.BuildJobs, status \in {"pending", "succeeded"}}

NextLock ==
  \/ \E p \in Procs, id \in {"j1", "j9"} : GetRLock(p, id)
  \/ \E p \in Procs : GetReturn(p)
  \/ \E p \in Procs, job \in LockJobInputs : UpdateLock(p, job)
  \/ \E p \in Procs : UpdateBody(p)
  \/ \E p \in Procs : hist.ops < MaxOps /\ ClaimLock(p)
  \/ \E p \in Procs : ClaimScan(p)
  \/ \E p \in Procs : ClaimCommit(p)

SpecLock == InitLock /\ [][NextLock]_vars

\* the callers inside a critical section that mutates, and inside one that
\* only reads
Writers == {p \in DOMAIN pc : pc[p] \in {"update_locked", "claim_locked", "claim_selected"}}
Readers == {p \in DOMAIN pc : pc[p] = "get_rlocked"}

\* C15: at most one mutating operation is inside its critical section, and
\* while one is, no reading operation is inside its critical section; each
\* operation takes effect within a single critical section: the store
\* changes only in a step of the one caller inside a mutating critical
\* section, which that step leaves
ReaderWriterExclusion ==
  [][/\ Cardinality(Writers') <= 1
     /\ Writers' # {} => Readers' = {}
     /\ data' # data
          => /\ Readers = {}
             /\ \E p \in Writers : Writers = {p} /\ pc'[p] = "idle"]_vars

\* a writer is inside its critical section, after another caller's read
\* and another caller's write have completed
ReaderWriterWitness ==
  /\ \E p \in Writers : pc[p] = "update_locked"
  /\ \E q \in DOMAIN ret : ret[q].op = "GetBuildJob" /\ pc[q] = "idle"
  /\ hist.ops > 0

\* ------------------------------------------------------------------------
\* The host agent (agent/main.go): one goroutine, a select loop over two
\* tickers and the signal context; a config pass writes the proxy
\* configuration, a reconcile pass converges the containers of the host
\* ------------------------------------------------------------------------
MaxPasses == 3
MaxReconciles == 2
MaxAgentFailures == 1
MaxDrifts == 1
MaxWorkerFailures == 2

ErrFetch == "fetch failed"
ErrDocker == "docker: exit status 1"
ErrFile == "file: write failed"

\* what GET /v1/traefik/config may serve
Contents == {"c1", "c2"}
\* sha256.Sum256: no two contents of the model share a digest, and none has
\* the digest made of 32 zero bytes that a fresh [32]byte holds
Sum256(content) == <<"sha256", content>>
ZeroHash == <<"32 zero bytes">>

\* type serviceState: Image and Compose are sequences of characters
serviceState(id, image, compose) == [ID |-> id, Image |-> image, Compose |-> compose]

\* what GET /v1/state/services may serve: a single-image service a on either
\* of two images or without image, a service b as a compose stack or as a
\* single image with a blank compose text
ServiceLists ==
  { <<>>,
    <<serviceState("a", <<"img1">>, <<>>)>>,
    <<serviceState("a", <<"img2">>, <<>>)>>,
    <<serviceState("a", <<>>, <<>>)>>,
    <<serviceState("b", <<>>, <<"y">>)>>,
    <<serviceState("b", <<"img1">>, <<" ">>)>>,
    <<serviceState("a", <<"img1">>, <<>>), serviceState("b", <<>>, <<"y">>)>> }

\* the host as docker and the file system show it:
\*   containers  by name: the image, whether it runs, the mdp.service label
\*   stacks      the compose projects that are up
\*   dirs        the directories under composeDir
\*   files       those holding a docker-compose.yml
containerName(id) == <<"svc-", id>>
Container(image, running, label) == [image |-> image, running |-> running, label |-> label]
Host(containers, stacks, dirs, files) == [containers |-> containers, stacks |-> stacks, dirs |-> dirs, files |-> files]
KeepContainers(h, names) == h
RemoveContainers(h, names) == [h EXCEPT !.containers = [n \in DOMAIN @ \ names |-> @[n]]]
PutContainer(h, name, c) == [h EXCEPT !.containers = (name :> c) @@ @]

\* the hosts an agent may start on: a clean one, and one that earlier runs
\* left a container and a stack on, next to a container of somebody else
InitialHosts ==
  { Host(<<>>, {}, {}, {}),
    Host((containerName("a") :> Container(<<"img1">>, TRUE, "a"))
           @@ (<<"other">> :> Container(<<"img9">>, TRUE, "")),
         {"b"}, {"b"}, {"b"}) }

\* one call of a pass, a docker invocation or the listing of composeDir:
\* the subcommand, what it is about, and whether it succeeded
Cmd(cmd, arg, ok) == [cmd |-> cmd, arg |-> arg, ok |-> ok]
\* the commands that change the runtime
Mutations == {"pull", "run", "start", "rm", "compose pull", "compose up", "compose down"}
\* what may go wrong in one step of a pass: nothing, one kind of call, or,
\* once the context is cancelled, every docker invocation
FailureChoices == {"compose down", "pull", "inspect", "start", "rm", "run", "mkdir", "write", "compose pull", "compose up", "ps", "readdir"}
Fails(f, cmd) == f = "all" \/ f = cmd

Outcome(h, log, err) == [host |-> h, log |-> log, err |-> err]

ensureContainer(h, svc, f) ==
  IF TrimSpace(svc.Image) = <<>> THEN Outcome(h, <<>>, Nil)
  ELSE
    LET name == containerName(svc.ID)
        hasFile == svc.ID \in h.files
        downOK == ~Fails(f, "compose down")
        h1 == IF hasFile /\ downOK THEN [h EXCEPT !.stacks = @ \ {svc.ID}] ELSE h
        log1 == IF hasFile THEN <<Cmd("compose down", svc.ID, downOK)>> ELSE <<>>
        log2 == Append(log1, Cmd("pull", svc.Image, ~Fails(f, "pull")))
        inspectOK == name \in DOMAIN h1.containers /\ ~Fails(f, "inspect")
        log3 == Append(log2, Cmd("inspect image", name, inspectOK))
    IN IF inspectOK /\ h1.containers[name].image = svc.Image
       THEN LET log4 == Append(log3, Cmd("inspect running", name, TRUE))
                startOK == ~Fails(f, "start")
            IN IF h1.containers[name].running
               THEN Outcome(h1, log4, Nil)
               ELSE Outcome(IF startOK THEN [h1 EXCEPT !.containers[name].running = TRUE] ELSE h1,
                            Append(log4, Cmd("start", name, startOK)),
                            IF startOK THEN Nil ELSE ErrDocker)
       ELSE LET rmOK == ~Fails(f, "rm")
                h2 == IF rmOK THEN RemoveContainers(h1, {name}) ELSE h1
                runOK == ~Fails(f, "run") /\ name \notin DOMAIN h2.containers
            IN Outcome(IF runOK THEN PutContainer(h2, name, Container(svc.Image, TRUE, svc.ID)) ELSE h2,
                       log3 \o <<Cmd("rm", name, rmOK), Cmd("run", name, runOK)>>,
                       IF runOK THEN Nil ELSE ErrDocker)

ensureComposeService(h, svc, f) ==
  LET name == containerName(svc.ID)
      rmOK == ~Fails(f, "rm")
      h1 == IF rmOK THEN RemoveContainers(h, {name}) ELSE h
      log1 == <<Cmd("rm", name, rmOK)>>
      h2 == [h1 EXCEPT !.dirs = @ \cup {svc.ID}]
      h3 == [h2 EXCEPT !.files = @ \cup {svc.ID}]
      log2 == Append(log1, Cmd("compose pull", svc.ID, ~Fails(f, "compose pull")))
      upOK == ~Fails(f, "compose up")
  IN IF f = "mkdir" THEN Outcome(h1, log1, ErrFile)
     ELSE IF f = "write" THEN Outcome(h2, log1, ErrFile)
     ELSE Outcome(IF upOK THEN [h3 EXCEPT !.stacks = @ \cup {svc.ID}] ELSE h3,
                  Append(log2, Cmd("compose up", svc.ID, upOK)),
                  IF upOK THEN Nil ELSE ErrDocker)

ensureService(h, svc, f) ==
  IF TrimSpace(svc.Compose) # <<>> THEN ensureComposeService(h, svc, f) ELSE ensureContainer(h, svc, f)

\* the keys of the desired map of reconcileServices
DesiredIDs(services) == {services[k].ID : k \in DOMAIN services}

\* the lines of docker ps -a --filter label=mdp.service whose service is
\* not desired, by container name
NoOrphans(h, desired) == {}
Orphans(h, desired) == {n \in DOMAIN h.containers : h.containers[n].label # "" /\ h.containers[n].label \notin desired}
\* the entries of composeDir that are directories of no desired service and
\* hold a docker-compose.yml
StaleStacks(h, desired) == {id \in h.dirs : id \notin desired /\ id \in h.files}

\* one command per element of a set, in the order of the listing
RECURSIVE CmdEach(_, _, _)
CmdEach(cmd, args, ok) ==
  IF args = {} THEN <<>>
  ELSE LET x == CHOOSE y \in args : TRUE IN <<Cmd(cmd, x, ok)>> \o CmdEach(cmd, args \ {x}, ok)

cleanupServices(h, desired, f) ==
  LET psOK == ~Fails(f, "ps")
      orphans == IF psOK THEN Orphans(h, desired) ELSE {}
      rmOK == ~Fails(f, "rm")
      h1 == IF rmOK THEN RemoveContainers(h, orphans) ELSE h
      readOK == f # "readdir"
      stale == IF readOK THEN StaleStacks(h, desired) ELSE {}
      downOK == ~Fails(f, "compose down")
      h2 == IF downOK THEN [h1 EXCEPT !.stacks = @ \ stale] ELSE h1
  IN Outcome(h2,
             <<Cmd("ps", "label=mdp.service", psOK)>> \o CmdEach("rm", orphans, rmOK)
               \o <<Cmd("readdir", "composeDir", readOK)>> \o CmdEach("compose down", stale, downOK),
             Nil)

\* what a step of a pass may meet: every docker invocation fails once the
\* context is cancelled, otherwise nothing fails or one kind of call does,
\* among the calls the step makes
StepFailures(made) == IF agent.ctxDone THEN {"all"} ELSE {"none"} \cup (IF agent.fails < MaxAgentFailures THEN made ELSE {})
CountFailure(f) == IF f \in FailureChoices THEN agent.fails + 1 ELSE agent.fails

\* --- the environment of the agent ---
\* a ticker delivers into a channel of capacity one: a tick that finds the
\* channel full is dropped
ConfigTick ==
  /\ agent.pc # "stopped"
  /\ ~agent.ticks.config
  /\ agent' = [agent EXCEPT !.ticks.config = TRUE]
  /\ UNCHANGED <<data, file, mu, now, pc, loc, ret, hist, heap, worker>>

ReconcileTick ==
  /\ agent.pc # "stopped"
  /\ ~agent.ticks.reconcile
  /\ agent' = [agent EXCEPT !.ticks.reconcile = TRUE]
  /\ UNCHANGED <<data, file, mu, now, pc, loc, ret, hist, heap, worker>>

\* SIGINT or SIGTERM cancels the context
Signal ==
  /\ agent.pc # "stopped"
  /\ ~agent.ctxDone
  /\ agent' = [agent EXCEPT !.ctxDone = TRUE]
  /\ UNCHANGED <<data, file, mu, now, pc, loc, ret, hist, heap, worker>>

\* somebody else stops a running container of the agent
HostDrift ==
  /\ agent.pc # "stopped"
  /\ agent.drifts < MaxDrifts
  /\ \E n \in DOMAIN agent.host.containers :
       /\ agent.host.containers[n].running
       /\ agent.host.containers[n].label # ""
       /\ agent' = [agent EXCEPT !.host.containers[n].running = FALSE, !.drift = TRUE, !.drifts = @ + 1]
  /\ UNCHANGED <<data, file, mu, now, pc, loc, ret, hist, heap, worker>>

\* --- run: the select loop ---
SelectDone ==
  /\ agent.pc = "select"
  /\ agent.ctxDone
  /\ agent' = [agent EXCEPT !.pc = "stopped"]
  /\ UNCHANGED <<data, file, mu, now, pc, loc, ret, hist, heap, worker>>

StartConfigPass ==
  /\ agent.pc = "select"
  /\ agent.ticks.config
  /\ agent.passes < MaxPasses
  /\ agent' = [agent EXCEPT !.pc = "config_fetch", !.ticks.config = FALSE, !.passes = @ + 1]
  /\ UNCHANGED <<data, file, mu, now, pc, loc, ret, hist, heap, worker>>

StartReconcilePass ==
  /\ agent.pc = "select"
  /\ agent.ticks.reconcile
  /\ agent.passes < MaxPasses
  /\ agent.finished < MaxReconciles
  /\ agent' = [agent EXCEPT !.pc = "reconcile_fetch", !.ticks.reconcile = FALSE, !.passes = @ + 1]
  /\ UNCHANGED <<data, file, mu, now, pc, loc, ret, hist, heap, worker>>

\* --- updateTraefikConfig ---
ConfigFetch ==
  /\ agent.pc = "config_fetch"
  /\ \/ /\ ~agent.ctxDone
        /\ \E c \in agent.served : agent' = [agent EXCEPT !.pc = "config_apply", !.fetched = c]
     \/ /\ agent.ctxDone \/ agent.fails < MaxAgentFailures
        /\ agent' = [agent EXCEPT !.pc = "select", !.fetched = None,
                                  !.fails = IF agent.ctxDone THEN @ ELSE @ + 1,
                                  !.last = [err |-> ErrFetch, content |-> None, wrote |-> FALSE]]
  /\ UNCHANGED <<data, file, mu, now, pc, loc, ret, hist, heap, worker>>

\* what *lastHash holds after the pass, by whether os.WriteFile succeeded
RememberAlways(lastHash, hash, ok) == hash
RememberAfterWrite(lastHash, hash, ok) == IF ok THEN hash ELSE lastHash

ConfigApply ==
  /\ agent.pc = "config_apply"
  /\ LET hash == Sum256(agent.fetched)
     IN IF hash = agent.lastHash
        THEN agent' = [agent EXCEPT !.pc = "select",
                                    !.last = [err |-> Nil, content |-> agent.fetched, wrote |-> FALSE]]
        ELSE \E ok \in {TRUE} \cup (IF agent.fails < MaxAgentFailures THEN {FALSE} ELSE {}) :
               \E left \in (IF ok THEN {agent.fetched} ELSE {agent.traefik, ""}) :
                 agent' = [agent EXCEPT !.pc = "select",
                                        !.traefik = left,
                                        !.written = IF ok THEN agent.fetched ELSE @,
                                        !.writes = @ + 1,
                                        !.fails = IF ok THEN @ ELSE @ + 1,
                                        !.lastHash = RememberAfterWrite(@, hash, ok),
                                        !.last = [err |-> IF ok THEN Nil ELSE ErrFile,
                                                  content |-> agent.fetched, wrote |-> TRUE]]
  /\ UNCHANGED <<data, file, mu, now, pc, loc, ret, hist, heap, worker>>

\* --- reconcileServices ---
\* a finished reconcile pass: the list it fetched, the services it tried to
\* converge with the error of each, the commands it issued, the host its
\* cleanup listed, and whether somebody else changed the host since the
\* pass before
\* the history keeps the last two finished passes
KeepLast(passes) == IF Len(passes) > 2 THEN Tail(passes) ELSE passes
PassDone(fetched, desired, attempts, cleanup, log, host0, drift) ==
  [fetched |-> fetched, desired |-> desired, attempts |-> attempts, cleanup |-> cleanup, log |-> log, host0 |-> host0, drift |-> drift]

\* what http.DefaultClient.Do hands to fetchServiceState: whether the
\* round trip worked, the status code, whether the body decodes and the
\* services it decodes to
Response(transport, status, decodes, services) ==
  [transport |-> transport, status |-> status, decodes |-> decodes, services |-> services]
TransportError == Response("error", 0, FALSE, <<>>)
\* the answers of the control plane: the list with status 200; an error
\* status, with a body that does not decode or with one that happens to;
\* status 200 with a body that does not decode; no answer at all
Responses(lists) ==
  {Response("ok", 200, TRUE, l) : l \in lists}
    \cup {Response("ok", 500, TRUE, l) : l \in {x \in lists : Len(x) = 2}}
    \cup {Response("ok", 404, FALSE, <<>>), Response("ok", 200, FALSE, <<>>), TransportError}

fetchIgnoringStatus(resp) ==
  IF resp.transport # "ok" THEN [err |-> ErrFetch, services |-> <<>>]
  ELSE IF ~resp.decodes THEN [err |-> ErrFetch, services |-> <<>>]
  ELSE [err |-> Nil, services |-> resp.services]
fetchServiceState(resp) ==
  IF resp.transport # "ok" THEN [err |-> ErrFetch, services |-> <<>>]
  ELSE IF resp.status >= 400 THEN [err |-> ErrFetch, services |-> <<>>]
  ELSE IF ~resp.decodes THEN [err |-> ErrFetch, services |-> <<>>]
  ELSE [err |-> Nil, services |-> resp.services]

ReconcileFetch ==
  /\ agent.pc = "reconcile_fetch"
  /\ \E resp \in (IF agent.ctxDone THEN {TransportError} ELSE Responses(agent.lists)) :
       LET r == fetchServiceState(resp)
       IN /\ (resp.status = 200 /\ resp.decodes) \/ agent.ctxDone \/ agent.fails < MaxAgentFailures
          /\ IF r.err = Nil
             THEN agent' = [agent EXCEPT !.pc = IF r.services = <<>> THEN "reconcile_cleanup" ELSE "reconcile_ensure",
                                         !.resp = resp,
                                         !.fails = IF resp.status = 200 THEN @ ELSE @ + 1,
                                         !.desired = r.services, !.i = 1, !.log = <<>>, !.attempts = <<>>]
             ELSE agent' = [agent EXCEPT !.pc = "select",
                                         !.resp = resp,
                                         !.fails = IF agent.ctxDone THEN @ ELSE @ + 1,
                                         !.drift = FALSE,
                                         !.finished = @ + 1,
                                         !.done = KeepLast(Append(@, PassDone(FALSE, <<>>, <<>>, FALSE, <<>>, agent.host, agent.drift)))]
  /\ UNCHANGED <<data, file, mu, now, pc, loc, ret, hist, heap, worker>>

\* where the loop over the fetched services goes after one service
ReturnOnError(err, i, n) == IF err # Nil THEN "select" ELSE IF i < n THEN "reconcile_ensure" ELSE "reconcile_cleanup"
LoopAfter(err, i, n) == IF i < n THEN "reconcile_ensure" ELSE "reconcile_cleanup"

ReconcileEnsure ==
  /\ agent.pc = "reconcile_ensure"
  /\ \E f \in StepFailures({c \in FailureChoices : ensureService(agent.host, agent.desired[agent.i], c)
                                                       # ensureService(agent.host, agent.desired[agent.i], "none")}) :
       LET svc == agent.desired[agent.i]
           r == ensureService(agent.host, svc, f)
       IN agent' = [agent EXCEPT !.pc = LoopAfter(r.err, agent.i, Len(agent.desired)),
                                 !.i = @ + 1,
                                 !.host = r.host,
                                 !.log = @ \o r.log,
                                 !.attempts = Append(@, [ID |-> svc.ID, err |-> r.err]),
                                 !.fails = CountFailure(f)]
  /\ UNCHANGED <<data, file, mu, now, pc, loc, ret, hist, heap, worker>>

ReconcileCleanup ==
  /\ agent.pc = "reconcile_cleanup"
  /\ \E f \in StepFailures({c \in FailureChoices : cleanupServices(agent.host, DesiredIDs(agent.desired), c)
                                                       # cleanupServices(agent.host, DesiredIDs(agent.desired), "none")}) :
       LET r == cleanupServices(agent.host, DesiredIDs(agent.desired), f)
       IN agent' = [agent EXCEPT !.pc = "select",
                                 !.host = r.host,
                                 !.log = @ \o r.log,
                                 !.fails = CountFailure(f),
                                 !.drift = FALSE,
                                 !.finished = @ + 1,
                                 !.done = KeepLast(Append(@, PassDone(TRUE, agent.desired, agent.attempts, TRUE,
                                                                      agent.log \o r.log, agent.host, agent.drift)))]
  /\ UNCHANGED <<data, file, mu, now, pc, loc, ret, hist, heap, worker>>

\* the agent as run starts it, on a host, against a control plane that may
\* serve the given configurations and the given lists of services
AgentStart(h, contents, lists) ==
  [pc |-> "select", ticks |-> [config |-> FALSE, reconcile |-> FALSE],
   ctxDone |-> FALSE, passes |-> 0, fails |-> 0,
   served |-> contents, fetched |-> None, lastHash |-> ZeroHash,
   traefik |-> None, written |-> None, writes |-> 0,
   last |-> [err |-> None, content |-> None, wrote |-> FALSE],
   lists |-> lists, resp |-> Response(None, 0, FALSE, <<>>), desired |-> <<>>, i |-> 1, host |-> h, log |-> <<>>,
   attempts |-> <<>>, drift |-> FALSE, finished |-> 0, drifts |-> 0, done |-> <<>>]

NoStore ==
  /\ data = EmptyState
  /\ file = JsonFile(EmptyState)
  /\ mu = MuFree
  /\ now = 1
  /\ pc = <<>>
  /\ loc = <<>>
  /\ ret = <<>>
  /\ hist = NoHist
  /\ heap = NoHeap

\* the loop and the config pass: both tickers, a control plane whose
\* configuration changes and whose one service stays
InitAgent ==
  /\ NoStore
  /\ worker = NoWorker
  /\ \E h \in InitialHosts :
       agent = AgentStart(h, Contents, {<<serviceState("a", <<"img1">>, <<>>)>>})

NextAgent ==
  \/ ConfigTick
  \/ ReconcileTick
  \/ Signal
  \/ SelectDone
  \/ StartConfigPass
  \/ StartReconcilePass
  \/ ConfigFetch
  \/ ConfigApply
  \/ ReconcileFetch
  \/ ReconcileEnsure
  \/ ReconcileCleanup

SpecAgent == InitAgent /\ [][NextAgent]_vars

\* where run is while it is inside updateTraefikConfig, inside
\* reconcileServices
ConfigPositions == {"config_fetch", "config_apply"}
ReconcilePositions == {"reconcile_fetch", "reconcile_ensure", "reconcile_cleanup"}

\* C16: the two passes are independent: while a reconcile pass is running,
\* a config tick that has fired can be served, the config pass can start
\* without the reconcile pass having finished; and likewise a reconcile
\* tick while a config pass is running
IndependentPasses ==
  /\ (agent.pc \in ReconcilePositions /\ agent.ticks.config /\ agent.passes < MaxPasses)
       => ENABLED StartConfigPass
  /\ (agent.pc \in ConfigPositions /\ agent.ticks.reconcile /\ agent.passes < MaxPasses
        /\ agent.finished < MaxReconciles)
       => ENABLED StartReconcilePass

\* C17: a config pass writes the configuration file if and only if the
\* fetch succeeded and the hash of the fetched content differs from the
\* hash of the content this process last wrote successfully (it always
\* differs while nothing was written); the file is written in no other
\* step; a failed fetch or a failed write leaves the remembered hash as it
\* was, a successful write leaves the fetched content in the file
ConfigWritesOnChange ==
  [][/\ agent'.writes # agent.writes => agent.pc = "config_apply"
     /\ (agent.pc \in ConfigPositions /\ agent'.pc = "select")
          => /\ agent'.writes = agent.writes + 1
                  <=> /\ agent.pc = "config_apply"
                      /\ \/ agent.written = None
                         \/ Sum256(agent.fetched) # Sum256(agent.written)
             /\ agent'.last.err # Nil
                  => agent'.lastHash = agent.lastHash /\ agent'.written = agent.written
             /\ (agent'.last.err = Nil /\ agent'.last.wrote)
                  => /\ agent'.traefik = agent.fetched
                     /\ agent'.written = agent.fetched
                     /\ agent'.lastHash = Sum256(agent.fetched)]_vars

\* three config passes: two of them wrote, one of the two writes failed,
\* and the last pass fetched the content last written successfully and did
\* not write
ConfigWritesWitness ==
  /\ agent.pc = "select"
  /\ agent.finished = 0
  /\ agent.passes = 3
  /\ agent.writes = 2
  /\ agent.fails = 1
  /\ agent.last.err = Nil
  /\ ~agent.last.wrote
  /\ agent.last.content = agent.written

\* the reconcile pass: the reconcile ticker alone and no signal, a control
\* plane whose list of services changes, a host that others change too
InitReconcile ==
  /\ NoStore
  /\ worker = NoWorker
  /\ \E h \in InitialHosts : agent = AgentStart(h, {"c1"}, ServiceLists)

NextReconcile ==
  \/ ReconcileTick
  \/ HostDrift
  \/ StartReconcilePass
  \/ ReconcileFetch
  \/ ReconcileEnsure
  \/ ReconcileCleanup

SpecReconcile == InitReconcile /\ [][NextReconcile]_vars

\* the positions of the runtime mutation commands in the commands of a pass
MutationsOf(log) == {k \in DOMAIN log : log[k].cmd \in Mutations}
\* the pass fetched its list and every call it issued succeeded
AllSucceeded(pass) ==
  /\ pass.fetched
  /\ \A k \in DOMAIN pass.log : pass.log[k].ok
  /\ \A k \in DOMAIN pass.attempts : pass.attempts[k].err = Nil

\* C18: reconcile is idempotent: after a pass whose every runtime command
\* succeeded, the next pass, if it fetched the same list of desired services
\* and nobody else changed the host in between, issues no runtime mutation
\* command (pull, run, start, rm, compose pull, compose up, compose down)
IdempotentReconcile ==
  \A k \in 1..(Len(agent.done) - 1) :
    LET first == agent.done[k]
        second == agent.done[k + 1]
    IN (AllSucceeded(first) /\ second.fetched /\ second.desired = first.desired /\ ~second.drift)
         => MutationsOf(second.log) = {}

\* the services a host of the model may carry something of
HostServiceIDs == {"a", "b"}
Issued(log, cmd, arg) == \E k \in DOMAIN log : log[k].cmd = cmd /\ log[k].arg = arg
Succeeded(log, cmd) == \E k \in DOMAIN log : log[k].cmd = cmd /\ log[k].ok
LabeledContainers(h, id) == {n \in DOMAIN h.containers : h.containers[n].label = id}

FailureIsolation ==
  /\ agent.pc \in {"select", "stopped"} => agent.finished = agent.passes
  /\ \A k \in DOMAIN agent.done :
       LET pass == agent.done[k]
       IN pass.fetched
            => /\ [j \in DOMAIN pass.attempts |-> pass.attempts[j].ID]
                    = [j \in DOMAIN pass.desired |-> pass.desired[j].ID]
               /\ pass.cleanup
               /\ Issued(pass.log, "ps", "label=mdp.service")

\* a finished pass whose first service failed to converge went on to
\* converge its second service and to clean up
FailureIsolationWitness ==
  \E k \in DOMAIN agent.done :
    LET pass == agent.done[k]
    IN /\ Len(pass.attempts) = 2
       /\ pass.attempts[1].err # Nil
       /\ pass.attempts[2].err = Nil
       /\ pass.cleanup
       /\ Issued(pass.log, "compose up", pass.attempts[2].ID)

\* the answer is one that fetchServiceState must refuse: no answer, a
\* status of 400 or more, or a body that does not decode
FailedFetch(resp) == resp.transport = "error" \/ resp.status >= 400 \/ ~resp.decodes

\* C21: the desired-state fetch is all or nothing: a reconcile pass whose
\* fetch failed never reaches the convergence of a service or the cleanup,
\* and ends having issued no command and attempted no service, on a host
\* that is as the fetch found it unless something else changed it since
FetchAllOrNothing ==
  FailedFetch(agent.resp)
    => /\ agent.pc \notin {"reconcile_ensure", "reconcile_cleanup"}
       /\ agent.done # <<>>
            => LET pass == agent.done[Len(agent.done)]
               IN /\ pass.log = <<>>
                  /\ pass.attempts = <<>>
                  /\ ~pass.cleanup
                  /\ (agent.pc \in {"select", "stopped"} /\ ~agent.drift) => agent.host = pass.host0

\* a pass got status 500 with a body that decodes to two services, on a host
\* with a container and a stack to tear down, and ended without a command
FetchAllOrNothingWitness ==
  /\ agent.pc = "select"
  /\ agent.resp.status = 500
  /\ Len(agent.resp.services) = 2
  /\ agent.finished = 1
  /\ agent.done[1].log = <<>>
  /\ agent.host.stacks # {}
  /\ agent.host.containers # <<>>

\* --- a host where somebody else's container bears the name of a service ---
\* the container svc-a exists without the mdp.service label, running or
\* stopped, on the desired image or on another
ForeignHosts ==
  { Host(containerName("a") :> Container(image, running, ""), {}, {}, {}) :
      image \in {<<"img1">>, <<"img9">>}, running \in BOOLEAN }
\* service a is served as a single image, as a compose stack, or not at all
ForeignLists ==
  { <<>>,
    <<serviceState("a", <<"img1">>, <<>>)>>,
    <<serviceState("a", <<>>, <<"y">>)>> }

InitForeign ==
  /\ NoStore
  /\ worker = NoWorker
  /\ \E h \in ForeignHosts : agent = AgentStart(h, {"c1"}, ForeignLists)

NextForeign ==
  \/ ReconcileTick
  \/ StartReconcilePass
  \/ ReconcileFetch
  \/ ReconcileEnsure
  \/ ReconcileCleanup

SpecForeign == InitForeign /\ [][NextForeign]_vars

\* the commands a step of a pass has added to the log of the pass
NewCommands == {k \in DOMAIN agent'.log : k > Len(agent.log)}

\* C22: ownership by label: every remove or start that a step of a reconcile
\* pass issues names a container that carries the mdp.service label, if it
\* names a container of the host at all
OwnershipByLabel ==
  [][agent.pc \in {"reconcile_ensure", "reconcile_cleanup"}
       => \A k \in NewCommands :
            (agent'.log[k].cmd \in {"rm", "start"} /\ agent'.log[k].arg \in DOMAIN agent.host.containers)
              => agent.host.containers[agent'.log[k].arg].label # ""]_vars

\* ------------------------------------------------------------------------
\* POST /v1/github/webhook
\* ------------------------------------------------------------------------
\* crypto/hmac over sha256: the tag of a message under a key
HmacSha256(secret, payload) == <<"hmac-sha256", secret, payload>>
\* the X-Hub-Signature-256 header: what precedes the digest, whether the
\* rest is hexadecimal, and the bytes it decodes to; the header that is
\* absent reads as the empty string
SigHeader(prefix, isHex, bytes) == [prefix |-> prefix, isHex |-> isHex, bytes |-> bytes]
EmptySig == SigHeader("", FALSE, <<>>)
ErrMissingSignature == "missing signature header"
ErrSignatureFormat == "unexpected signature format"
ErrDecodeSignature == "decode signature"
ErrSignatureMismatch == "signature mismatch"

verifyFormatOnly(signatureHeader, payload, secret) ==
  IF signatureHeader = EmptySig THEN ErrMissingSignature
  ELSE IF signatureHeader.prefix # "sha256=" THEN ErrSignatureFormat
  ELSE IF ~signatureHeader.isHex THEN ErrDecodeSignature
  ELSE Nil
verifySignature(signatureHeader, payload, secret) ==
  IF signatureHeader = EmptySig THEN ErrMissingSignature
  ELSE IF signatureHeader.prefix # "sha256=" THEN ErrSignatureFormat
  ELSE IF ~signatureHeader.isHex THEN ErrDecodeSignature
  ELSE IF HmacSha256(secret, payload) # signatureHeader.bytes THEN ErrSignatureMismatch
  ELSE Nil

\* a delivered body: whether it is JSON, and the fields the handler reads
\* from it: installation.id, repository.full_name, ref, after
Body(isJSON, installation, fullName, after) ==
  [isJSON |-> isJSON, installation |-> installation, fullName |-> fullName,
   ref |-> "refs/heads/main", after |-> after]
\* strconv.FormatInt(n, 10) on the installation numbers of the model
FormatInt(n) == IF n = 42 THEN "42" ELSE IF n = 7 THEN "7" ELSE "0"
extractInstallationID(payload) ==
  IF ~payload.isJSON THEN ""
  ELSE IF payload.installation = 0 THEN ""
  ELSE FormatInt(payload.installation)
parsePushEvent(payload) ==
  IF ~payload.isJSON THEN [err |-> "invalid json", Repository |-> "", Ref |-> "", After |-> ""]
  ELSE [err |-> Nil, Repository |-> payload.fullName, Ref |-> payload.ref, After |-> payload.after]

\* a request: the X-GitHub-Event, X-GitHub-Installation-Id and
\* X-Hub-Signature-256 headers, and the body
WebhookRequest(event, installationHeader, sig, body) ==
  [event |-> event, installationHeader |-> installationHeader, sig |-> sig, body |-> body]
\* lines 767-772: the header names the installation, else the body does
RequestInstallationID(req) ==
  IF req.installationHeader # "" THEN req.installationHeader ELSE extractInstallationID(req.body)

NoInstallation == Installation("", "", "", "", ZeroTime, ZeroTime)
\* what FindInstallationByExternalID may return: the installation the range
\* over the map meets first among those with the external ID, in whatever
\* order the map is walked, or nil with ErrNotFound
FindInstallationByExternalID(installations, externalID) ==
  LET found == {installations[k] : k \in {x \in DOMAIN installations : installations[x].ExternalID = externalID}}
  IN IF found = {} THEN {NoInstallation} ELSE {cloneInstallation(inst) : inst \in found}
\* lines 774-782: no lookup without an installation ID
LookupInstallation(installations, installationID) ==
  IF installationID = "" THEN {NoInstallation}
  ELSE FindInstallationByExternalID(installations, installationID)

ErrSignatureInvalid == "401 signature invalid"
\* lines 784-792: the signature is verified when the installation was found
\* and holds a secret; otherwise a signature is logged and the request goes on
CheckSignature(inst, req) ==
  IF inst # NoInstallation /\ inst.WebhookSecret # ""
  THEN IF verifySignature(req.sig, req.body, inst.WebhookSecret) # Nil THEN ErrSignatureInvalid ELSE Nil
  ELSE Nil

\* repositoryID of a full name, on the names of the model
repositoryID(fullName) == IF fullName = "octo/app" THEN "octo-app" ELSE "owner-repo"
\* lines 806-830: the job of a push, with the fields of the repository if
\* it is registered
PushJob(id, req, repos) ==
  LET info == parsePushEvent(req.body)
      job == [NewJob(id, "pending") EXCEPT !.Repository = info.Repository, !.Ref = info.Ref,
                                           !.Commit = info.After,
                                           !.Installation = RequestInstallationID(req)]
      repoID == repositoryID(info.Repository)
  IN IF repoID \in DOMAIN repos
     THEN [job EXCEPT !.ServiceID = repos[repoID].ServiceID,
                      !.Environment = IF repos[repoID].Environment # "" THEN repos[repoID].Environment
                                      ELSE IF repos[repoID].ServiceID # "" THEN "production" ELSE @,
                      !.ComposePath = repos[repoID].ComposePath]
     ELSE job
\* lines 801-805: the event is a push whose body names a repository and a commit
EnqueuesJob(req) ==
  LET info == parsePushEvent(req.body)
  IN req.event = "push" /\ info.err = Nil /\ info.Repository # "" /\ info.After # ""

\* the handler up to the switch on the event: the installation is looked up
\* under the read lock and the signature checked; the request is answered
\* 401, or answered "accepted", or goes on to enqueue a build job
WebhookReceive(p, req) ==
  /\ pc[p] = "idle"
  /\ hist.ops < MaxOps
  /\ Cardinality(DOMAIN data.BuildJobs) < MaxJobs
  /\ RLocked
  /\ \E inst \in LookupInstallation(data.Installations, RequestInstallationID(req)) :
       LET err == CheckSignature(inst, req)
       IN /\ ret' = [ret EXCEPT ![p] = [op |-> "webhook", err |-> err, job |-> NoJob, req |-> req, inst |-> inst]]
          /\ pc' = [pc EXCEPT ![p] = IF err = Nil /\ EnqueuesJob(req) THEN "webhook_push" ELSE "idle"]
  /\ UNCHANGED <<data, file, now, loc, hist, heap, agent, worker>>

\* lines 806-838: the job is built and handed to CreateBuildJob
WebhookEnqueue(p) ==
  /\ pc[p] = "webhook_push"
  /\ ret[p].op = "webhook"
  /\ CreateBuildJob(p, PushJob(newID, ret[p].req, data.Repos))

\* the response is written and the request ends
WebhookRespond(p) ==
  /\ pc[p] = "webhook_push"
  /\ ret[p].op = "CreateBuildJob"
  /\ pc' = [pc EXCEPT ![p] = "idle"]
  /\ ret' = [ret EXCEPT ![p] = NoRet]
  /\ UNCHANGED <<data, file, mu, now, loc, hist, heap, agent, worker>>

\* the installations registered through POST /v1/installations before the
\* deliveries: none, installation 42 of account octo with or without a
\* secret, and the same next to one of another account registered with the
\* same external ID and no secret
WebhookStores ==
  LET octo(secret) == "octo-42" :> Installation("octo-42", "octo", "42", secret, 1, 1)
      evil == "evil-42" :> Installation("evil-42", "evil", "42", "", 1, 1)
  IN {[EmptyState EXCEPT !.Installations = insts] :
        insts \in {<<>>, octo("s3cret"), octo(""), octo("s3cret") @@ evil}}

WebhookBodies == {Body(TRUE, 42, "owner/repo", "c0ffee"), Body(TRUE, 0, "owner/repo", "c0ffee")}
\* no header, a sha1 header, a digest that is not hexadecimal, a digest
\* that is too short, the tag of a delivered body under the stored secret
\* or under another, and the tag of a body that is not the delivered one
WebhookSigs ==
  {EmptySig, SigHeader("sha1=", TRUE, <<"aa">>), SigHeader("sha256=", FALSE, <<>>),
   SigHeader("sha256=", TRUE, <<"aa">>),
   SigHeader("sha256=", TRUE, HmacSha256("wrong", Body(TRUE, 42, "owner/repo", "c0ffee"))),
   SigHeader("sha256=", TRUE, HmacSha256("s3cret", Body(TRUE, 42, "owner/repo", "dead")))}
    \cup {SigHeader("sha256=", TRUE, HmacSha256("s3cret", body)) : body \in WebhookBodies}
WebhookRequests ==
  {WebhookRequest(event, header, sig, body) :
     event \in {"push", "ping"}, header \in {"", "42"}, sig \in WebhookSigs, body \in WebhookBodies}

InitWebhook ==
  /\ data \in WebhookStores
  /\ file = JsonFile(data)
  /\ mu = MuFree
  /\ now = 1
  /\ pc = [p \in {StoreCaller} |-> "idle"]
  /\ loc = [p \in {StoreCaller} |-> NoLoc]
  /\ ret = [p \in {StoreCaller} |-> NoRet]
  /\ hist = NoHist
  /\ heap = NoHeap
  /\ agent = NoAgent
  /\ worker = NoWorker

NextWebhook ==
  \/ \E req \in WebhookRequests : WebhookReceive(StoreCaller, req)
  \/ WebhookEnqueue(StoreCaller)
  \/ WebhookRespond(StoreCaller)

SpecWebhook == InitWebhook /\ [][NextWebhook]_vars

\* the installations stored under the external ID a request names
InstallationsOf(req) ==
  {data.Installations[k] : k \in {x \in DOMAIN data.Installations :
                                    data.Installations[x].ExternalID = RequestInstallationID(req)}}
\* the header is the well-formed hexadecimal HMAC-SHA256 of the body under the secret
ValidSignature(req, secret) == req.sig = SigHeader("sha256=", TRUE, HmacSha256(secret, req.body))
\* the step is the handler taking in the request req
Receives(p, req) == pc[p] = "idle" /\ ret'[p] # ret[p] /\ ret'[p].op = "webhook" /\ ret'[p].req = req

UnverifiableRejected ==
  [][\A req \in WebhookRequests :
       (/\ Receives(StoreCaller, req)
        /\ req.sig # EmptySig
        /\ \A inst \in InstallationsOf(req) : inst.WebhookSecret = "")
         => /\ ret'[StoreCaller].err # Nil
            /\ pc'[StoreCaller] = "idle"]_vars

\* ------------------------------------------------------------------------
\* The build worker
\* ------------------------------------------------------------------------
\* the fields of buildJob that processJob reads
WorkerJob(id, serviceID) == [ID |-> id, ServiceID |-> serviceID]
NoWorkerJob == WorkerJob("", "")
ErrClaim == "claim error"
\* what claimJob makes of the answer to POST /v1/build-jobs/claim: a
\* transport error, 204 for an empty queue, a status of 400 or more, a body
\* that does not decode, or the job
claimJob(resp) ==
  IF resp.transport # "ok" THEN [job |-> NoWorkerJob, err |-> ErrClaim]
  ELSE IF resp.status = 204 THEN [job |-> NoWorkerJob, err |-> Nil]
  ELSE IF resp.status >= 400 THEN [job |-> NoWorkerJob, err |-> ErrClaim]
  ELSE IF ~resp.decodes THEN [job |-> NoWorkerJob, err |-> ErrClaim]
  ELSE [job |-> resp.services, err |-> Nil]
\* the answers the control plane may give to a claim: the oldest pending job
\* of its queue, 204 when there is none, or an error
ClaimResponses(queue) ==
  (IF queue = <<>> THEN {Response("ok", 204, FALSE, NoWorkerJob)}
   ELSE {Response("ok", 200, TRUE, Head(queue))})
    \cup {Response("ok", 500, FALSE, NoWorkerJob), Response("error", 0, FALSE, NoWorkerJob)}

\* the steps of performBuild that may fail
BuildErrors == {"git clone", "docker build"}
\* fmt.Sprintf("build error: %v", err), fmt.Sprintf("deploy error: %v", err)
Sprintf(prefix, err) == <<prefix, err>>
\* the PATCH that updateJob sends for a job, and whether it was answered
\* below 400
Update(id, status, reason, delivered) == [id |-> id, status |-> status, reason |-> reason, delivered |-> delivered]

\* where run goes after processJob returned: the error is logged and the
\* loop goes back to the select
StopOnJobError(err) == IF err # Nil THEN "stopped" ELSE "select"
AfterProcessJob(err) == "select"

WorkerStart(queue, autoComplete) ==
  [pc |-> "select", tick |-> FALSE, ctxDone |-> FALSE, queue |-> queue,
   job |-> NoWorkerJob, artifacts |-> <<>>, sent |-> <<>>, claimed |-> <<>>,
   failed |-> {}, fails |-> 0, autoComplete |-> autoComplete]

\* the ticker delivers into a channel of capacity one
WorkerTick ==
  /\ worker.pc # "stopped"
  /\ ~worker.tick
  /\ worker' = [worker EXCEPT !.tick = TRUE]
  /\ UNCHANGED <<data, file, mu, now, pc, loc, ret, hist, heap, agent>>

\* SIGINT or SIGTERM cancels the context
WorkerSignal ==
  /\ worker.pc # "stopped"
  /\ ~worker.ctxDone
  /\ worker' = [worker EXCEPT !.ctxDone = TRUE]
  /\ UNCHANGED <<data, file, mu, now, pc, loc, ret, hist, heap, agent>>

\* case <-ctx.Done(): run returns nil
WorkerSelectDone ==
  /\ worker.pc = "select"
  /\ worker.ctxDone
  /\ worker' = [worker EXCEPT !.pc = "stopped"]
  /\ UNCHANGED <<data, file, mu, now, pc, loc, ret, hist, heap, agent>>

\* what a call of the worker may meet: with the context cancelled every
\* request and command fails, otherwise it succeeds or, within the budget of
\* failures, fails
WorkerOutcomes(errs) ==
  IF worker.ctxDone THEN errs
  ELSE {Nil} \cup (IF worker.fails < MaxWorkerFailures THEN errs ELSE {})
WorkerFailure(err) == IF err # Nil /\ ~worker.ctxDone THEN worker.fails + 1 ELSE worker.fails

\* case <-ticker.C: claimJob; an error or no job goes back to the select
WorkerClaim ==
  /\ worker.pc = "select"
  /\ worker.tick
  /\ \E resp \in ClaimResponses(worker.queue) :
       LET r == claimJob(resp)
           failed == resp.transport # "ok" \/ resp.status >= 400
       IN /\ IF worker.ctxDone THEN resp.transport = "error"
             ELSE ~failed \/ worker.fails < MaxWorkerFailures
          /\ worker' = [worker EXCEPT !.tick = FALSE,
                                      !.fails = IF failed /\ ~worker.ctxDone THEN @ + 1 ELSE @,
                                      !.pc = IF r.err = Nil /\ r.job # NoWorkerJob THEN "build" ELSE "select",
                                      !.job = r.job,
                                      !.queue = IF r.err = Nil /\ r.job # NoWorkerJob THEN Tail(@) ELSE @,
                                      !.claimed = IF r.err = Nil /\ r.job # NoWorkerJob THEN Append(@, r.job.ID) ELSE @]
  /\ UNCHANGED <<data, file, mu, now, pc, loc, ret, hist, heap, agent>>

\* processJob, first half: performBuild; when it fails the job is reported
\* failed with the build error as reason, the result of that update is
\* dropped, and processJob returns the error
WorkerBuild ==
  /\ worker.pc = "build"
  /\ \E err \in WorkerOutcomes(BuildErrors), delivered \in BOOLEAN :
       /\ delivered = ~worker.ctxDone
       /\ IF err # Nil
          THEN worker' = [worker EXCEPT !.pc = AfterProcessJob(err),
                                        !.fails = WorkerFailure(err),
                                        !.failed = @ \cup {worker.job.ID},
                                        !.sent = Append(@, Update(worker.job.ID, "failed",
                                                                  Sprintf("build error: ", err), delivered))]
          ELSE worker' = [worker EXCEPT !.pc = "deploy", !.artifacts = <<"image">>]
  /\ UNCHANGED <<data, file, mu, now, pc, loc, ret, hist, heap, agent>>

\* processJob, second half: the image is deployed when the job has a
\* service, a failure of that reported as the build failure is; otherwise
\* the job is reported running, or succeeded with auto-complete
WorkerDeploy ==
  /\ worker.pc = "deploy"
  /\ \E err \in (IF worker.job.ServiceID # "" THEN WorkerOutcomes({"deploy"}) ELSE {Nil}) :
       LET delivered == ~worker.ctxDone
       IN worker' = [worker EXCEPT !.pc = AfterProcessJob(err),
                                   !.fails = WorkerFailure(err),
                                   !.artifacts = <<>>,
                                   !.sent = Append(@, IF err # Nil
                                                      THEN Update(worker.job.ID, "failed", Sprintf("deploy error: ", err), delivered)
                                                      ELSE Update(worker.job.ID,
                                                                  IF worker.autoComplete THEN "succeeded" ELSE "running",
                                                                  <<>>, delivered))]
  /\ UNCHANGED <<data, file, mu, now, pc, loc, ret, hist, heap, agent>>

\* the queues the control plane holds when the worker starts: jobs with
\* and without a service
WorkerQueues ==
  {<<WorkerJob("j1", s1), WorkerJob("j2", s2)>> : s1 \in {"", "s1"}, s2 \in {"", "s1"}}
    \cup {<<WorkerJob("j1", "")>>, <<>>}

InitWorker ==
  /\ NoStore
  /\ agent = NoAgent
  /\ \E queue \in WorkerQueues, auto \in BOOLEAN : worker = WorkerStart(queue, auto)

NextWorker ==
  \/ WorkerTick
  \/ WorkerSignal
  \/ WorkerSelectDone
  \/ WorkerClaim
  \/ WorkerBuild
  \/ WorkerDeploy

SpecWorker == InitWorker /\ [][NextWorker]_vars

\* C25: the worker survives build failures: for every job whose build
\* failed, the worker has sent an update setting that job to failed with a
\* non-empty reason; and the worker leaves its polling loop only when its
\* context is cancelled, so that with jobs pending and a tick delivered the
\* next claim is taken
WorkerSurvives ==
  /\ \A id \in worker.failed :
       \E k \in DOMAIN worker.sent :
         /\ worker.sent[k].id = id
         /\ worker.sent[k].status = "failed"
         /\ worker.sent[k].reason # <<>>
         /\ \A x \in DOMAIN worker.sent[k].reason : worker.sent[k].reason[x] # ""
  /\ worker.pc = "stopped" => worker.ctxDone
  /\ (worker.pc = "select" /\ worker.tick /\ ~worker.ctxDone) => ENABLED WorkerClaim

\* the build of job j1 failed, the update was sent and answered, and a
\* later tick claimed job j2
WorkerSurvivesWitness ==
  /\ ~worker.ctxDone
  /\ worker.failed = {"j1"}
  /\ worker.sent # <<>>
  /\ worker.sent[1] = Update("j1", "failed", Sprintf("build error: ", "docker build"), TRUE)
  /\ worker.claimed = <<"j1", "j2">>
  /\ worker.job.ID = "j2"

\* ------------------------------------------------------------------------
\* Claims next to updates: POST /v1/build-jobs/claim and PATCH
\* /v1/build-jobs/{id} on one pending job, no update naming status pending
\* ------------------------------------------------------------------------
RequeueFreePayloads == {payload \in PatchPayloads : payload.Status # "pending"}

NextClaimPatch ==
  \/ \E p \in Procs : PatchGet(p, "j1")
  \/ \E p \in Procs, payload \in RequeueFreePayloads : PatchUpdate(p, payload)
  \/ \E p \in Procs : PatchRespond(p)
  \/ \E p \in Procs : hist.ops < MaxOps /\ ClaimLock(p)
  \/ \E p \in Procs : ClaimScan(p)
  \/ \E p \in Procs : ClaimCommit(p)

SpecClaimPatch == InitLock /\ [][NextClaimPatch]_vars

\* C26: one worker per claim under API interleavings: while no update
\* request names the status pending, no job is returned by two claims
OneWorkerPerClaim ==
  \A i \in DOMAIN hist.claims : \A j \in DOMAIN hist.claims :
    i # j => hist.claims[i].id # hist.claims[j].id

\* ------------------------------------------------------------------------
\* The process stopping while a mutation writes the snapshot
\* ------------------------------------------------------------------------
ErrUnmarshal == "unexpected end of JSON input"
\* load on an existing file: an empty file leaves the empty maps of New, a
\* file that does not parse makes New fail, a snapshot replaces the state
load(f) ==
  IF f.kind = "empty" THEN [err |-> Nil, state |-> EmptyState]
  ELSE IF f.kind = "truncated" THEN [err |-> ErrUnmarshal, state |-> EmptyState]
  ELSE [err |-> Nil, state |-> UnmarshalState(f.doc)]
\* os.WriteFile opens the path with O_TRUNC, writes the bytes and closes: a
\* process that stops before the open leaves the old file, after the open
\* an empty file, within the write a prefix of the bytes, after it the
\* snapshot of the new state
StoppedWrites(st, old) == {old, EmptyFile, TruncatedFile, JsonFile(st)}

\* the process stops inside the persistLocked of a mutation that has
\* assigned its map entry: the file is as the write left it, the memory and
\* every running request are gone
StopInWrite(next) ==
  /\ mu = MuFree
  /\ hist.crash.at # "down"
  /\ \E f \in StoppedWrites(next, file) : file' = f
  /\ pc' = [p \in DOMAIN pc |-> "down"]
  /\ hist' = [hist EXCEPT !.op = "stop", !.ops = @ + 1,
                          !.crash = [at |-> "down", pre |-> data, post |-> next]]
  /\ UNCHANGED <<data, mu, now, loc, ret, heap, agent, worker>>

StopInCreateBuildJob(c, job) ==
  /\ Idle(c)
  /\ StopInWrite([data EXCEPT !.BuildJobs = (job.ID :> cloneBuildJob(CreateBuildJobValue(job, now))) @@ @])

NextCrash ==
  \/ Tick
  \/ Restart
  \/ \E job \in CreateJobInputs : Idle(StoreCaller) /\ CreateBuildJob(StoreCaller, job)
  \/ \E job \in CreateJobInputs : StopInCreateBuildJob(StoreCaller, job)

SpecCrash == InitStore /\ [][NextCrash]_vars

\* C27: crash during snapshot write: after the process stopped while a
\* mutation was writing the snapshot, New on the file succeeds and loads
\* what the complete snapshot of the state before the mutation, or of the
\* state after it, loads
CrashLeavesSnapshot ==
  hist.crash.at = "down"
    => /\ load(file).err = Nil
       /\ load(file).state \in {load(JsonFile(hist.crash.pre)).state, load(JsonFile(hist.crash.post)).state}

\* ------------------------------------------------------------------------
\* Claims next to requeues: callers that claim under their own worker
\* names, and updates that put the stored job back to pending or end it
\* ------------------------------------------------------------------------
NextRequeue ==
  \/ Tick
  \/ \E p \in Procs, job \in LockJobInputs : Idle(p) /\ UpdateBuildJob(p, job)
  \/ \E p \in Procs : Idle(p) /\ ClaimLock(p)
  \/ \E p \in Procs : ClaimScan(p)
  \/ \E p \in Procs : ClaimCommit(p)

SpecRequeue == InitLock /\ [][NextRequeue]_vars

\* C28: a claim only takes pending jobs and overwrites the claim data: the
\* job a claim returns was pending before the call, and afterwards it is
\* stored running with the worker ID of that claim and the time of that
\* claim as its start, the returned copy saying the same
ClaimOverwrites ==
  [][(StepOf("claim") /\ hist'.err = Nil)
       => LET id == hist'.arg.ID
              c == hist'.claims[Len(hist'.claims)]
          IN /\ c.id = id
             /\ data.BuildJobs[id].Status = "pending"
             /\ data'.BuildJobs[id].Status = "running"
             /\ data'.BuildJobs[id].WorkerID = WorkerOf(c.p)
             /\ data'.BuildJobs[id].StartedAt = now
             /\ ret'[c.p].job = data'.BuildJobs[id]]_vars

\* job j1 was claimed at time 1 by one worker, put back to pending, and
\* claimed at time 2 by another: it carries the second worker and time 2
ClaimOverwritesWitness ==
  /\ hist.op = "claim"
  /\ hist.err = Nil
  /\ Len(hist.claims) = 2
  /\ hist.claims[1].id = "j1"
  /\ hist.claims[2].id = "j1"
  /\ hist.claims[2].before["j1"].WorkerID = WorkerOf(hist.claims[1].p)
  /\ hist.claims[2].before["j1"].StartedAt = 1
  /\ hist.claims[1].p # hist.claims[2].p
  /\ now = 2
  /\ data.BuildJobs["j1"].WorkerID = WorkerOf(hist.claims[2].p)
  /\ data.BuildJobs["j1"].StartedAt = 2

\* the step converges the service at the head of the rest of the list
EnsureStep == agent.pc = "reconcile_ensure" /\ agent'.i = agent.i + 1
\* the commands cmd1 on arg1, cmd2 on arg2, cmd3 on arg3 are among those the
\* step issued, in that order
IssuedInOrder(cmd1, arg1, cmd2, arg2, cmd3, arg3) ==
  \E i \in NewCommands : \E j \in NewCommands : \E k \in NewCommands :
    /\ i < j /\ j < k
    /\ agent'.log[i].cmd = cmd1 /\ agent'.log[i].arg = arg1
    /\ agent'.log[j].cmd = cmd2 /\ agent'.log[j].arg = arg2
    /\ agent'.log[k].cmd = cmd3 /\ agent'.log[k].arg = arg3

\* C29: replace on drift: for a single-image service whose labeled
\* container has another image than the desired one or is stopped, the
\* convergence step, its commands succeeding, pulls the desired image,
\* force-removes the old container and runs a new container under the name
\* and the label of the service
ReplaceOnDrift ==
  [][EnsureStep
       => LET svc == agent.desired[agent.i]
              name == containerName(svc.ID)
          IN (/\ TrimSpace(svc.Compose) = <<>>
              /\ TrimSpace(svc.Image) # <<>>
              /\ name \in DOMAIN agent.host.containers
              /\ agent.host.containers[name].label = svc.ID
              /\ agent.host.containers[name].image # svc.Image \/ ~agent.host.containers[name].running
              /\ \A k \in NewCommands : agent'.log[k].ok)
               => /\ IssuedInOrder("pull", svc.Image, "rm", name, "run", name)
                  /\ agent'.host.containers[name] = Container(svc.Image, TRUE, svc.ID)]_vars

\* ------------------------------------------------------------------------
\* A service that changes representation: served as a single image, as a
\* compose stack, or with neither, on a host where an earlier run left its
\* container or its stack
\* ------------------------------------------------------------------------
MigrateLists ==
  { <<serviceState("a", <<"img1">>, <<>>)>>,
    <<serviceState("a", <<>>, <<"y">>)>>,
    <<serviceState("a", <<>>, <<>>)>> }
MigrateHosts ==
  { Host(<<>>, {}, {}, {}),
    Host(containerName("a") :> Container(<<"img1">>, TRUE, "a"), {}, {}, {}),
    Host(<<>>, {"a"}, {"a"}, {"a"}) }

InitMigrate ==
  /\ NoStore
  /\ worker = NoWorker
  /\ \E h \in MigrateHosts : agent = AgentStart(h, {"c1"}, MigrateLists)

NextMigrate ==
  \/ ReconcileTick
  \/ StartReconcilePass
  \/ ReconcileFetch
  \/ ReconcileEnsure
  \/ ReconcileCleanup

SpecMigrate == InitMigrate /\ [][NextMigrate]_vars

\* the service has both its single container and its compose stack running
BothRunning(h, id) ==
  /\ containerName(id) \in DOMAIN h.containers
  /\ h.containers[containerName(id)].running
  /\ id \in h.stacks
\* the last pass has ended, nothing has run since, and every call it
\* issued succeeded
PassSucceeded ==
  /\ agent.pc = "select"
  /\ agent.done # <<>>
  /\ AllSucceeded(agent.done[Len(agent.done)])
LastPass == agent.done[Len(agent.done)]
\* in the commands of a pass, every compose up of a service comes after a
\* remove of its single container, and every run or start of the container
\* of a service that has a compose file comes after a compose down of its stack
MigrationOrder(log, h) ==
  \A k \in DOMAIN log :
    /\ log[k].cmd = "compose up"
         => \E j \in 1..(k - 1) : log[j].cmd = "rm" /\ log[j].arg = containerName(log[k].arg)
    /\ log[k].cmd \in {"run", "start"}
         => \A id \in h.files :
              log[k].arg = containerName(id)
                => \E j \in 1..(k - 1) : log[j].cmd = "compose down" /\ log[j].arg = id

ShutdownKeepsPass ==
  [][/\ (agent.ctxDone /\ EnsureStep)
          => LET r == ensureService(agent.host, agent.desired[agent.i], "none")
             IN /\ agent'.host = r.host
                /\ agent'.log = agent.log \o r.log
     /\ (agent.ctxDone /\ agent.pc = "reconcile_cleanup" /\ agent'.pc = "select")
          => LET r == cleanupServices(agent.host, DesiredIDs(agent.desired), "none")
             IN /\ agent'.host = r.host
                /\ agent'.log = agent.log \o r.log
     /\ agent'.pc = "stopped" => agent.pc \in {"select", "stopped"}]_vars

\* ---------------------------------------------------------------------
\* Repository registration and webhook routing
\* ---------------------------------------------------------------------

\* the body of POST /v1/github/repos as the CLI sends it (part_005
\* 417-431): service_id and environment are keys of the body
RepoPayload(owner, name, defaultBranch, composePath, installation, serviceID, environment) ==
  [owner |-> owner, name |-> name, default_branch |-> defaultBranch,
   compose_path |-> composePath, installation_id |-> installation,
   service_id |-> serviceID, environment |-> environment]

\* strings.TrimSpace (server.go 233-234) on the owner and name strings of
\* the model, which are whole words or one blank
TrimName(s) == IF s = " " THEN "" ELSE s
\* owner + "/" + name, the full name a push event carries
FullName(owner, name) == IF owner = "octo" /\ name = "app" THEN "octo/app" ELSE "owner/repo"
DefaultComposePath == <<"docker-compose.yml">>
ErrOwnerAndNameRequired == "owner and name required"

\* server.go 222-228 and 244-251: the handler decodes owner, name,
\* default_branch, compose_path and installation_id; the struct it decodes
\* into has no field for service_id or environment, so encoding/json drops
\* those keys and the repository is built with both empty
repoOfPayload(payload) ==
  Repository(repositoryID(FullName(TrimName(payload.owner), TrimName(payload.name))),
             TrimName(payload.owner), TrimName(payload.name),
             IF payload.default_branch = "" THEN "main" ELSE payload.default_branch,
             IF payload.compose_path = <<>> THEN DefaultComposePath ELSE payload.compose_path,
             payload.installation_id, "", "", ZeroTime, ZeroTime)

\* what a client that got 201 has registered for the repository: the
\* service and environment of the last body that named a service, and the
\* compose path of the last body
Registered(prev, id, payload, repo) ==
  LET old == IF id \in DOMAIN prev THEN prev[id]
             ELSE [service_id |-> "", environment |-> "", compose_path |-> <<>>]
  IN (id :> [service_id |-> IF payload.service_id # "" THEN payload.service_id
                            ELSE old.service_id,
             environment |-> IF payload.service_id # "" THEN payload.environment
                             ELSE old.environment,
             compose_path |-> repo.ComposePath]) @@ prev

\* server.go 221-261: POST /v1/github/repos. A body without owner or name
\* is answered 400; else the repository goes to UpsertRepository (store.go
\* 243-268), which merges it with the stored one under the write lock and
\* writes the snapshot; 201 unless the write failed
PostRepository(p, payload) ==
  /\ Idle(p)
  /\ IF TrimName(payload.owner) = "" \/ TrimName(payload.name) = ""
     THEN /\ ret' = [ret EXCEPT ![p] =
                       [op |-> "POST", err |-> ErrOwnerAndNameRequired, job |-> NoJob]]
          /\ UNCHANGED <<data, file, mu, now, pc, loc, hist, heap, agent, worker>>
     ELSE LET repo == repoOfPayload(payload)
              stored == cloneRepository(UpsertRepositoryValue(repo, data.Repos, now))
              next == [data EXCEPT !.Repos = (repo.ID :> stored) @@ @]
          IN /\ Locked
             /\ \E w \in Writes(next) :
                  /\ data' = next
                  /\ file' = w.file
                  /\ ret' = [ret EXCEPT ![p] =
                               [op |-> "UpsertRepository",
                                err |-> IF w.ok THEN Nil ELSE ErrPersist,
                                job |-> NoJob]]
                  /\ hist' = [hist EXCEPT
                                !.op = "UpsertRepository",
                                !.err = IF w.ok THEN Nil ELSE ErrPersist,
                                !.arg = repo, !.ops = @ + 1,
                                !.fails = IF w.ok THEN @ ELSE @ + 1,
                                !.accepted = IF w.ok
                                             THEN Registered(@, repo.ID, payload, repo)
                                             ELSE @]
             /\ UNCHANGED <<now, pc, loc, heap, agent, worker>>

RepoPayloads ==
  {RepoPayload("octo", "app", "", <<"c">>, "", "s1", "staging"),
   RepoPayload("octo", "app", "main", <<>>, "", "s1", "production"),
   RepoPayload("octo", "app", "", <<"c">>, "42", "", ""),
   RepoPayload(" ", "app", "", <<>>, "", "s1", "staging")}
RoutePushes ==
  {WebhookRequest("push", "", EmptySig, Body(TRUE, 0, fullName, after)) :
     fullName \in {"octo/app", "owner/repo"}, after \in {"c0ffee", "dead"}}

NextRoute ==
  \/ \E payload \in RepoPayloads : PostRepository(StoreCaller, payload)
  \/ \E req \in RoutePushes : WebhookReceive(StoreCaller, req)
  \/ WebhookEnqueue(StoreCaller)
  \/ WebhookRespond(StoreCaller)
SpecRoute == InitStore /\ [][NextRoute]_vars

\* C32: a push for a repository that was registered with a service ID and
\* environment (every write of the snapshot having succeeded) creates a
\* pending build job whose service ID, environment and compose path are the
\* registered ones
RoutedByMapping ==
  [][\A id \in DOMAIN data'.BuildJobs \ DOMAIN data.BuildJobs :
       LET job == data'.BuildJobs[id]
           repoID == repositoryID(job.Repository)
       IN (/\ hist'.fails = 0
           /\ repoID \in DOMAIN hist.accepted
           /\ hist.accepted[repoID].service_id # "")
            => /\ job.Status = "pending"
               /\ job.ServiceID = hist.accepted[repoID].service_id
               /\ job.Environment = hist.accepted[repoID].environment
               /\ job.ComposePath = hist.accepted[repoID].compose_path]_vars


\* ---------------------------------------------------------------------
\* SpecDomain: POST /v1/services/{id}/domains and POST
\* /v1/services/{id}/deployments, NumProcs requests in flight at most, on
\* the service of DeployState
\* ---------------------------------------------------------------------
ErrHostnameRequired == "400 hostname required"
DomainIDPool == <<"d1", "d2", "d3", "d4", "d5", "d6">>

\* handleServiceDomains, line 470: GetService under the read lock returns
\* a copy of the stored service, or ErrNotFound (answered 404)
DomainGet(p, id) ==
  /\ pc[p] = "idle"
  /\ hist.ops < MaxOps
  /\ RLocked
  /\ IF id \in DOMAIN data.Services
     THEN /\ pc' = [pc EXCEPT ![p] = "domain_read"]
          /\ ret' = [ret EXCEPT ![p] =
                       [op |-> "GetService", err |-> Nil,
                        job |-> cloneService(data.Services[id])]]
     ELSE /\ ret' = [ret EXCEPT ![p] =
                       [op |-> "GetService", err |-> ErrServiceNotFound,
                        job |-> NoJob]]
          /\ UNCHANGED pc
  /\ UNCHANGED <<data, file, now, loc, hist, heap, agent, worker>>

\* lines 483-512: the body is decoded; a body without hostname is
\* answered 400; else the domain is appended to the copy read earlier and
\* the copy goes to UpdateService (store.go 172-183), which stamps it,
\* stores a clone and writes the snapshot. The request is answered 201
\* when UpdateService returns nil, and the history keeps the domain then
DomainUpdate(p, payload) ==
  /\ pc[p] = "domain_read"
  /\ ret[p].op = "GetService"
  /\ IF payload.Hostname = ""
     THEN /\ pc' = [pc EXCEPT ![p] = "idle"]
          /\ ret' = [ret EXCEPT ![p] =
                       [op |-> "POST", err |-> ErrHostnameRequired, job |-> NoJob]]
          /\ UNCHANGED <<data, file, mu, now, loc, hist, heap, agent, worker>>
     ELSE LET domain == Domain(DomainIDPool[hist.ops + 1], ret[p].job.ID,
                               DeployEnvironment(payload), payload.Hostname, now)
              service == [ret[p].job EXCEPT
                            !.Domains = MkSlice(Append(@.elems, domain))]
              stored == cloneService([service EXCEPT !.UpdatedAt = now])
              next == [data EXCEPT !.Services[service.ID] = stored]
          IN /\ Locked
             /\ \E w \in Writes(next) :
                  /\ data' = next
                  /\ file' = w.file
                  /\ ret' = [ret EXCEPT ![p] =
                               [op |-> "UpdateService",
                                err |-> IF w.ok THEN Nil ELSE ErrPersist,
                                job |-> NoJob]]
                  /\ hist' = [hist EXCEPT
                                !.op = "UpdateService",
                                !.err = IF w.ok THEN Nil ELSE ErrPersist,
                                !.arg = service, !.ops = @ + 1,
                                !.fails = IF w.ok THEN @ ELSE @ + 1,
                                !.accepted = IF w.ok
                                             THEN (domain.ID :> domain.Hostname) @@ @
                                             ELSE @]
             /\ UNCHANGED <<now, pc, loc, heap, agent, worker>>

\* lines 514-515: the response is written and the request ends
DomainRespond(p) ==
  /\ pc[p] = "domain_read"
  /\ ret[p].op = "UpdateService"
  /\ pc' = [pc EXCEPT ![p] = "idle"]
  /\ ret' = [ret EXCEPT ![p] = NoRet]
  /\ UNCHANGED <<data, file, mu, now, loc, hist, heap, agent, worker>>

\* bodies of POST /v1/services/{id}/domains
DomainPayloads == [Environment : {""}, Hostname : {"", "a.example", "b.example"}]

NextDomain ==
  \/ \E p \in Procs, id \in {DeployServiceID, "s2"} : DomainGet(p, id)
  \/ \E p \in Procs, payload \in DomainPayloads : DomainUpdate(p, payload)
  \/ \E p \in Procs : DomainRespond(p)
  \/ \E p \in Procs : DeployGet(p, DeployServiceID)
  \/ \E p \in Procs : DeployUpdate(p, [Environment |-> "", Image |-> "img2"])
  \/ \E p \in Procs : DeployRespond(p)
SpecDomain == InitDeploy /\ [][NextDomain]_vars

\* the IDs of the domains in the stored service's domain list
DomainIDs(svc) == {svc.Domains.elems[i].ID : i \in DOMAIN svc.Domains.elems}

\* C33: a domain whose POST /v1/services/{id}/domains was answered with
\* success is in the domain list of the stored service in every later
\* state, whatever domain and deployment requests run beside it
DomainsNeverLost ==
  \A id \in DOMAIN hist.accepted \cap {DomainIDPool[i] : i \in DOMAIN DomainIDPool} :
    id \in DomainIDs(data.Services[DeployServiceID])


\* ---------------------------------------------------------------------
\* SpecProject: POST /v1/projects/{id}/services beside CreateProject
\* ---------------------------------------------------------------------
ErrNameRequired == "400 name required"
ServiceIDPool == <<"s1", "s2", "s3", "s4">>
DefaultInternalPort == 80

\* server.go 312-347: a body without name is answered 400; a port of 0 is
\* replaced by 80; the service takes the project ID of the URL as it is,
\* and goes to CreateService (store.go 156-169), which looks at the
\* service ID only
createService(p, projectID, payload) ==
  /\ Idle(p)
  /\ IF payload.Name = ""
     THEN /\ ret' = [ret EXCEPT ![p] =
                       [op |-> "POST", err |-> ErrNameRequired, job |-> NoJob]]
          /\ UNCHANGED <<data, file, mu, now, pc, loc, hist, heap, agent, worker>>
     ELSE CreateService(p, Service(ServiceIDPool[Cardinality(DOMAIN data.Services) + 1],
                                   projectID, payload.Name, payload.Image,
                                   IF payload.InternalPort = 0 THEN DefaultInternalPort
                                   ELSE payload.InternalPort,
                                   "", ZeroTime, ZeroTime, MkSlice(<<>>), MkSlice(<<>>)))

\* bodies of POST /v1/projects/{id}/services
ServicePayloads == [Name : {"", "api"}, Image : {"", "nginx:1.0"}, InternalPort : {0, 8080}]
ProjectPool == {"p1", "p2"}

\* store.go 98-111: ListProjects ranges over the map of projects
ListProjects(projects) == Orders(DOMAIN projects)
\* store.go 142-153: ListServicesByProject ranges over the map of services
\* and keeps those whose ProjectID is the one asked for
ListServicesByProject(services, projectID) ==
  Orders({id \in DOMAIN services : services[id].ProjectID = projectID})

\* server.go 425-432 and 442-449: the fields of a service the response carries
serviceInfo(svc) ==
  [ID |-> svc.ID, ProjectID |-> svc.ProjectID, Name |-> svc.Name, Image |-> svc.Image,
   InternalPort |-> svc.InternalPort, Compose |-> svc.Compose]

\* server.go 434-451: the lists of the projects, in the order of the
\* projects, appended to one list
RECURSIVE StateServices(_, _)
StateServices(projects, services) ==
  IF projects = <<>> THEN {<<>>}
  ELSE {[i \in DOMAIN list |-> serviceInfo(services[list[i]])] \o rest :
          list \in ListServicesByProject(services, Head(projects)),
          rest \in StateServices(Tail(projects), services)}

\* server.go 418-454: GET /v1/state/services, served while no request
\* changes the store: one step from ListProjects to the response
handleServiceState(p) ==
  /\ pc[p] = "idle"
  /\ RLocked
  /\ \E projects \in ListProjects(data.Projects) :
       \E services \in StateServices(projects, data.Services) :
         ret' = [ret EXCEPT ![p] =
                   [op |-> "GET state", err |-> Nil, job |-> NoJob, services |-> services]]
  /\ UNCHANGED <<data, file, now, pc, loc, hist, heap, agent, worker>>

NextProject ==
  \/ Tick
  \/ \E id \in ProjectPool :
       Idle(StoreCaller) /\ CreateProject(StoreCaller, Project(id, "web", "web", ZeroTime))
  \/ \E id \in ProjectPool, payload \in ServicePayloads :
       createService(StoreCaller, id, payload)
  \/ handleServiceState(StoreCaller)
SpecProject == InitStore /\ [][NextProject]_vars

\* C34: the project ID of every stored service is the ID of a stored
\* project
ServiceHasProject ==
  \A id \in DOMAIN data.Services : data.Services[id].ProjectID \in DOMAIN data.Projects


\* ---------------------------------------------------------------------
\* SpecStatus: POST /v1/build-jobs, PATCH /v1/build-jobs/{id} and the
\* claim, with bodies whose status is any string a client may send
\* ---------------------------------------------------------------------
\* bodies of POST /v1/build-jobs and PATCH /v1/build-jobs/{id}: the status
\* is decoded as a string and never compared with the four statuses
\* (server.go 622, 642, 696, 703-705)
StatusPostPayloads ==
  [Repository : {"owner/repo"}, Commit : {"c0ffee"},
   Status : {"", "running", "cancelled"}, Artifacts : {NilSlice}]
StatusPatchPayloads ==
  {PatchPayload(status, "", NilSlice, <<>>) : status \in {"", "running", "failed", "cancelled"}}

NextStatus ==
  \/ \E p \in Procs, payload \in StatusPostPayloads : PostBuildJob(p, payload)
  \/ \E p \in Procs, id \in JobIDs : PatchGet(p, id)
  \/ \E p \in Procs, payload \in StatusPatchPayloads : PatchUpdate(p, payload)
  \/ \E p \in Procs : PatchRespond(p)
  \/ \E p \in Procs : hist.ops < MaxOps /\ ClaimLock(p)
  \/ \E p \in Procs : ClaimScan(p)
  \/ \E p \in Procs : ClaimCommit(p)
SpecStatus == InitLock /\ [][NextStatus]_vars

\* C35: every stored build job has status pending, running, succeeded or
\* failed
StatusInMachine ==
  \A id \in DOMAIN data.BuildJobs : data.BuildJobs[id].Status \in Statuses

\* C36: every stored build job with status running has a worker ID and a
\* start time
RunningHasOwner ==
  \A id \in DOMAIN data.BuildJobs :
    data.BuildJobs[id].Status = "running"
      => /\ data.BuildJobs[id].WorkerID # ""
         /\ data.BuildJobs[id].StartedAt # ZeroTime


\* C37: the response of GET /v1/state/services, served with no concurrent
\* mutation, lists every stored service exactly once
DesiredStateComplete ==
  [][(ret'[StoreCaller].op = "GET state" /\ ret' # ret)
       => LET services == ret'[StoreCaller].services
          IN /\ {services[i].ID : i \in DOMAIN services} = DOMAIN data.Services
             /\ \A i, j \in DOMAIN services : services[i].ID = services[j].ID => i = j]_vars


\* C38: a failed rollout keeps the old container: when, in the convergence
\* step of a single-image service, the pull of the desired image or the
\* run of the new container fails, the container that was running for the
\* service before the step is the one running after it
FailedRolloutKeepsOld ==
  [][EnsureStep
       => LET svc == agent.desired[agent.i]
              name == containerName(svc.ID)
          IN (/\ TrimSpace(svc.Compose) = <<>>
              /\ TrimSpace(svc.Image) # <<>>
              /\ name \in DOMAIN agent.host.containers
              /\ agent.host.containers[name].running
              /\ \E k \in NewCommands :
                   agent'.log[k].cmd \in {"pull", "run"} /\ ~agent'.log[k].ok)
               => /\ name \in DOMAIN agent'.host.containers
                  /\ agent'.host.containers[name] = agent.host.containers[name]]_vars


\* ---------------------------------------------------------------------
\* SpecStuck: NumProcs build workers, started with -auto-complete, polling
\* one control plane whose store holds pending jobs; a worker may be
\* stopped by a signal at any point, one worker at least keeps running
\* ---------------------------------------------------------------------
StuckState ==
  [EmptyState EXCEPT !.BuildJobs = [id \in JobIDs |-> JobInStatus(id, "pending", 1)]]

InitStuck ==
  /\ data = StuckState
  /\ file = JsonFile(StuckState)
  /\ mu = MuFree
  /\ now = 1
  /\ pc = [p \in Procs |-> "idle"]
  /\ loc = [p \in Procs |-> NoLoc]
  /\ ret = [p \in Procs |-> NoRet]
  /\ hist = NoHist
  /\ heap = NoHeap
  /\ agent = NoAgent
  /\ worker = NoWorker

\* part_006 82 and 90: the ticker of the worker fires
PollTick(p) ==
  /\ pc[p] = "idle"
  /\ pc' = [pc EXCEPT ![p] = "tick"]
  /\ UNCHANGED <<data, file, mu, now, loc, ret, hist, heap, agent, worker>>

\* part_006 91-98 and 116-156: claimJob posts /v1/build-jobs/claim, which
\* ClaimNextPendingBuildJob (store.go 415-449) serves in one critical
\* section: 204 when no job is pending, the job made running when one is,
\* 500 when the snapshot write failed. Only pending jobs are looked at
\* (422-424): a running job is never handed out again
PollClaim(p) ==
  /\ pc[p] = "tick"
  /\ Locked
  /\ \E order \in Orders(DOMAIN data.BuildJobs) :
       LET sel == ScanPending(order, data.BuildJobs, None)
       IN IF sel = None
          THEN /\ pc' = [pc EXCEPT ![p] = "idle"]
               /\ ret' = [ret EXCEPT ![p] =
                            [op |-> "claim", err |-> ErrNotFound, job |-> NoJob]]
               /\ UNCHANGED <<data, file, loc, hist>>
          ELSE LET job == ClaimTransition(data.BuildJobs[sel], WorkerOf(p), now)
                   next == [data EXCEPT !.BuildJobs[sel] = cloneBuildJob(job)]
               IN \E w \in Writes(next) :
                    /\ data' = next
                    /\ file' = w.file
                    /\ hist' = [hist EXCEPT !.fails = IF w.ok THEN @ ELSE @ + 1]
                    /\ ret' = [ret EXCEPT ![p] =
                                 IF w.ok
                                 THEN [op |-> "claim", err |-> Nil, job |-> cloneBuildJob(job)]
                                 ELSE [op |-> "claim", err |-> ErrPersist, job |-> NoJob]]
                    /\ pc' = [pc EXCEPT ![p] = IF w.ok THEN "processing" ELSE "idle"]
                    /\ loc' = [loc EXCEPT ![p] =
                                 IF w.ok THEN [NoLoc EXCEPT !.job = cloneBuildJob(job)]
                                 ELSE NoLoc]
  /\ UNCHANGED <<now, heap, agent, worker>>

\* part_006 158-193: processJob ends with one PATCH /v1/build-jobs/{id}:
\* failed after a build or deploy error, succeeded else; the handler
\* (server.go 683-714) puts the status into the stored job. An update that
\* fails is logged and the worker goes back to its select
WorkerReport(p, status) ==
  /\ pc[p] = "processing"
  /\ Locked
  /\ LET id == loc[p].job.ID
         job == UpdateBuildJobValue(
                  ApplyPatch(cloneBuildJob(data.BuildJobs[id]),
                             PatchPayload(status, "", NilSlice, <<>>)), now)
         next == [data EXCEPT !.BuildJobs[id] = cloneBuildJob(job)]
     IN \E w \in Writes(next) :
          /\ data' = next
          /\ file' = w.file
          /\ hist' = [hist EXCEPT !.fails = IF w.ok THEN @ ELSE @ + 1]
          /\ ret' = [ret EXCEPT ![p] =
                       [op |-> "UpdateBuildJob",
                        err |-> IF w.ok THEN Nil ELSE ErrPersist, job |-> job]]
  /\ pc' = [pc EXCEPT ![p] = "idle"]
  /\ loc' = [loc EXCEPT ![p] = NoLoc]
  /\ UNCHANGED <<now, heap, agent, worker>>

\* part_006 38 and 87-89: SIGINT or SIGTERM cancels the context of the
\* worker. The commands of a build in progress are started with
\* exec.CommandContext (370) and are killed, the PATCH that would report
\* the failure is sent with the same cancelled context (211) and fails at
\* once, and run returns at the next select: the worker stops without a
\* report. The guard keeps one worker running
WorkerStop(p) ==
  /\ pc[p] \in {"idle", "tick", "processing"}
  /\ \E q \in Procs \ {p} : pc[q] # "stopped"
  /\ pc' = [pc EXCEPT ![p] = "stopped"]
  /\ UNCHANGED <<data, file, mu, now, loc, ret, hist, heap, agent, worker>>

NextStuck ==
  \/ \E p \in Procs : PollTick(p)
  \/ \E p \in Procs : PollClaim(p)
  \/ \E p \in Procs, status \in {"succeeded", "failed"} : WorkerReport(p, status)
  \/ \E p \in Procs : WorkerStop(p)

\* the control plane answers every request, the ticker of a running worker
\* keeps firing, a running worker polls at each tick and ends each job it
\* processes with its report; nothing makes a signal arrive or not
SpecStuck ==
  /\ InitStuck
  /\ [][NextStuck]_vars
  /\ \A p \in Procs :
       /\ WF_vars(PollTick(p))
       /\ WF_vars(PollClaim(p))
       /\ WF_vars(\E status \in {"succeeded", "failed"} : WorkerReport(p, status))

\* C39: every build job that becomes running eventually becomes succeeded,
\* failed or pending again, even if the worker that claimed it stops before
\* reporting, as long as the control plane answers and one worker keeps
\* polling
RunningEnds ==
  \A id \in JobIDs :
    (data.BuildJobs[id].Status = "running")
      ~> (data.BuildJobs[id].Status \in {"succeeded", "failed", "pending"})

====
